---- MODULE Spec2Model ----
(***************************************************************************)
(* A state-machine model of the WhatsApp gateway service: the Device rows  *)
(* of the relational store, the protocol-session store, the Connection     *)
(* Manager's device->Client registry and its lock, the per-device Client   *)
(* wrappers, the tasks that run ConnectClientSafely / Connect(), the bulk  *)
(* reconnection of ConnectAllApproved, the health check, the event         *)
(* handlers of Client and EventHandler, the QR hand-off of GetQRCode, the  *)
(* message pipeline, the notification gate and the outbound webhooks.      *)
(*                                                                         *)
(* Every database statement, every lock-protected section and every        *)
(* channel operation is one atomic step; goroutines interleave freely.     *)
(***************************************************************************)
EXTENDS Integers, Sequences, FiniteSets, TLC

(***************************************************************************)
(* Bounds of the model.                                                    *)
(***************************************************************************)
NumDevices == 3      \* rows of whatsapp_devices
NumJIDs == 3         \* distinct protocol identifiers a phone can pair as
MaxClients == 3      \* Client instances created during one run
NumReconnects == 2   \* reconnect requests (POST /admin/devices/:id/reconnect)
NumQRRequests == 2   \* QR requests (GET /devices/:id/qrcode)
MaxEvents == 2       \* protocol events emitted during one run
MaxCodes == 2        \* QR events among them
MaxStatusUpdates == 1   \* status updates (PUT /devices/:id/status) during one run
NumMsgIds == 2       \* distinct message ids the phone delivers
MaxDeliveries == 2   \* Message events delivered during one run
MaxSends == 2        \* notifications submitted during one run
TickMinutes == 15    \* minutes between two readings of the clock
MaxTime == 60        \* minutes the clock runs
MaxTextSends == 2    \* send requests (POST /devices/:id/send) during one run
MaxHookEvents == 2   \* device events handed to sendToWebhook during one run
MaxPasses == 6       \* times ProcessPendingWebhooks picks one delivery up
MaxInserts == 2      \* single rows inserted into webhook_deliveries during one run
MaxTicks == 1        \* times the database clock is seen to advance between statements
RetryDelay == 2      \* clock units until a scheduled retry is due
NumNotifiers == 2    \* goroutines that call SendDeviceNotification side by side
NumGoroutines == 3   \* goroutines that take the manager lock and the Client locks
NumLockClients == 1  \* Clients whose locks they take

(***************************************************************************)
(* Program constants.                                                      *)
(***************************************************************************)
SemaphoreSize == 2          \* make(chan struct{}, 2)
HandlerRegistrations == 2   \* GetClient subscribes the manager's fan-out twice

Devices == 1 .. NumDevices
JIDs == 1 .. NumJIDs
Clients == 1 .. MaxClients
Tasks == 1 .. NumDevices          \* one goroutine of ConnectAllApproved per device
ConnTasks == 1 .. NumReconnects   \* goroutines started by reconnect requests
QRRequests == 1 .. NumQRRequests
Channels == 1 .. (2 * NumQRRequests)   \* GetQRCode opens two channels per request
Events == 1 .. MaxEvents
Codes == 1 .. MaxCodes

(* who runs Connect() and who can hold the manager lock: a task, or a QR   *)
(* request                                                                 *)
QRCaller(r) == NumDevices + r
Callers == 1 .. (NumDevices + NumQRRequests)

NoJID == 0           \* sql.NullString{Valid: false}; Store.ID == nil
NoClient == 0        \* absent registry entry / nil *Client
NoTask == 0          \* the manager lock is free
NoChannel == 0       \* c.qrChannel == nil
NoCode == 0

DeviceStatusPending == "pending"
DeviceStatusApproved == "approved"
DeviceStatusConnected == "connected"
DeviceStatusDisabled == "disabled"
DeviceStatus ==
  {DeviceStatusPending, DeviceStatusApproved, DeviceStatusConnected, DeviceStatusDisabled}

VARIABLES
  devices,      \* whatsapp_devices: id -> [status, jid, reauth]
  everConn,     \* history: the row's status has been "connected" at some point
  sessions,     \* the protocol-session store: identifiers with a stored session
  clients,      \* Client instances: id -> [dev, storeID, connected, sock, qrChannel]
  registry,     \* Manager.clients: device -> Client id (NoClient = absent)
  mutex,        \* Manager.mutex: the caller holding it (NoTask = free)
  nsWired,      \* Manager.notificationService != nil
  boot,         \* main: "clean" -> "connect" -> "serving"
  task,         \* ConnectClientSafely invocations: id -> [pc, dev, cl, snap, res, origin]
  conn,         \* Connect() calls: caller -> [pc, cl, sid]
  sem,          \* tokens taken from ConnectAllApproved's semaphore
  hc,           \* the HealthCheckClients loop
  pendingDisc,  \* UpdateDeviceStatus(disabled) requests that still have to DisconnectClient
  nUpdates,     \* status updates requested so far
  alerts,       \* the latest Notify* call: [dev, type, status] (status: the row's)
  ev,           \* the event each session is dispatching: Client -> [kind, pc, n, row, code, id]
  nEvents,      \* protocol events emitted so far
  gor,          \* goroutines started by the Client's handlers
  qr,           \* GetQRCode requests: id -> [pc, dev, cl, ch, row, got, res]
  chans,        \* QR channels: id -> [cl, carried, first, firstw]
  nCodes,       \* QR events emitted so far
  gcReturned,   \* history: Clients that GetClient returned since the entry's last eviction
  gcCreated,    \* history: Clients that GetClient created since the entry's last eviction
  gcCalls,      \* history: GetClient calls that returned a Client since that eviction
  tracked,      \* tracked_entities: chat -> row (NoEntity = no row)
  inbox,        \* the messages the phone has delivered: id -> [chat, kind]
  messages,     \* whatsapp_messages: rows [dev, id, group, media]
  msg,          \* the Message event being dispatched, with what its handling has done
  nDeliv,       \* Message events delivered so far
  now,          \* the clock, in minutes
  notifLog,     \* notification_logs: rows [dev, type, at]
  ncall,        \* the latest SendDeviceNotification(Forced) call of this instant, its effects
  webhookURL,   \* NotificationService.webhookURL != ""
  nSends,       \* notifications submitted so far
  send,         \* the send request being served: [pc, dev, snap, res, n]
  deliveries,   \* webhook_deliveries, by id: rows [wid, status, attempts, cfg, posts, seen]
  hookEnabled,  \* the webhook configuration is enabled (EventHandler's copy and its row)
  retryq,       \* scheduleWebhookRetry goroutines started and not yet run
  nHooks,       \* device events handed to sendToWebhook so far
  outbox,       \* webhook_deliveries with its times, and what GetPendingWebhookDeliveries returns now
  ncalls,       \* SendDeviceNotification calls running side by side: caller -> [pc, dev, type, level]
  held,         \* Manager.mutex and every Client.mutex: lock -> the goroutine holding it
  running       \* goroutines going through locked sections: id -> the calls still to make

dbVars == <<devices, everConn, sessions>>
apiVars == <<pendingDisc, nUpdates>>
histVars == <<gcReturned, gcCreated, gcCalls>>
evVars == <<ev, nEvents, gor>>
qrVars == <<qr, chans, nCodes>>
msgVars == <<tracked, inbox, messages, msg, nDeliv>>
notifVars == <<now, notifLog, ncall, webhookURL, nSends>>
raceVars == <<ncalls>>
lockVars == <<held, running>>
lateVars == <<outbox, raceVars, lockVars>>
hookVars == <<deliveries, hookEnabled, retryq, nHooks, lateVars>>
coreVars == <<dbVars, clients, registry, mutex, nsWired, boot, task, conn, sem, hc, apiVars,
              alerts, evVars, qrVars, histVars>>
extVars == <<msgVars, notifVars, send, hookVars>>
vars == <<devices, everConn, sessions, clients, registry, mutex, nsWired, boot, task, conn,
          sem, hc, pendingDisc, nUpdates, alerts, ev, nEvents, gor, qr, chans, nCodes,
          gcReturned, gcCreated, gcCalls, tracked, inbox, messages, msg,
          nDeliv, now, notifLog, ncall, webhookURL, nSends, send, deliveries,
          hookEnabled, retryq, nHooks, outbox, ncalls, held, running>>

(***************************************************************************)
(* Rows and records.                                                       *)
(***************************************************************************)
DeviceRow(st, j, r) == [status |-> st, jid |-> j, reauth |-> r]
NoRow == DeviceRow("none", NoJID, FALSE)
ClientRec(d, sid) ==
  [dev |-> d, storeID |-> sid, connected |-> FALSE, sock |-> "closed", qrChannel |-> NoChannel]
FreeClient == ClientRec(0, NoJID)
IdleTask == [pc |-> "idle", dev |-> 0, cl |-> NoClient, snap |-> "none", res |-> "none",
             origin |-> "none"]
IdleConn == [pc |-> "none", cl |-> NoClient, sid |-> NoJID]
IdleHC == [pc |-> "idle", todo |-> {}, dev |-> 0, row |-> NoRow]
NoEvent == [kind |-> "none", pc |-> "none", n |-> 0, row |-> NoRow, code |-> NoCode, id |-> 0]
IdleQR == [pc |-> "idle", dev |-> 0, cl |-> NoClient, ch |-> NoChannel, row |-> NoRow,
           got |-> NoCode, res |-> "none"]
ClosedChan == [cl |-> NoClient, carried |-> <<>>, first |-> NoCode, firstw |-> NoCode]
IdleSend == [pc |-> "idle", dev |-> 0, snap |-> "none", res |-> "none", n |-> 0]
NoAlert == [dev |-> 0, type |-> "none", status |-> "none"]

(* A session is live while its socket is being dialled or is open.        *)
Live(c) == clients[c].dev # 0 /\ clients[c].sock \in {"dialing", "open"}

(* IsConnected(): the connected flag, read under the Client's own lock.   *)
IsConnected(c) == clients[c].connected

(***************************************************************************)
(* Data access layer: each statement is atomic.                            *)
(***************************************************************************)
(* an UpdateDevice whose UPDATE leaves the status column out               *)
UpdateDeviceKeepingStatus(d, row) ==
  /\ devices' = [devices EXCEPT ![d] = [row EXCEPT !.status = devices[d].status]]
  /\ UNCHANGED everConn

(* UpdateDevice: a full-row UPDATE from the caller's (possibly stale) copy *)
UpdateDevice(d, row) ==
  /\ devices' = [devices EXCEPT ![d] = row]
  /\ everConn' = [everConn EXCEPT ![d] = @ \/ row.status = DeviceStatusConnected]

(* UpdateDeviceStatus: UPDATE ... SET status = $1                          *)
UpdateDeviceStatus(d, st) ==
  /\ devices' = [devices EXCEPT ![d].status = st]
  /\ everConn' = [everConn EXCEPT ![d] = @ \/ st = DeviceStatusConnected]

(* a SetDeviceRequiresReauth that does not look at the status              *)
SetDeviceRequiresReauthAlways(d) ==
  /\ devices' = [devices EXCEPT ![d].reauth = TRUE]
  /\ UNCHANGED everConn

(* SetDeviceRequiresReauth: reads the status and returns when it is        *)
(* connected; the UPDATE excludes connected and disabled rows              *)
SetDeviceRequiresReauth(d) ==
  IF devices[d].status \in {DeviceStatusConnected, DeviceStatusDisabled}
  THEN UNCHANGED <<devices, everConn>>
  ELSE /\ devices' = [devices EXCEPT ![d].reauth = TRUE]
       /\ UNCHANGED everConn

(* ClearDeviceSession: jid = NULL, requires_reauth = false, connected ->   *)
(* approved                                                                *)
ClearedRow(row) ==
  DeviceRow(IF row.status = DeviceStatusConnected THEN DeviceStatusApproved ELSE row.status,
            NoJID, FALSE)
ClearDeviceSession(d) ==
  /\ devices' = [devices EXCEPT ![d] = ClearedRow(devices[d])]
  /\ UNCHANGED everConn

(***************************************************************************)
(* Notification triggers: NotifyDeviceConnectionError and friends are      *)
(* called after a device lookup, whatever the row's status is.             *)
(***************************************************************************)
Raise(d, type) ==
  alerts' = IF nsWired
            THEN [dev |-> d, type |-> type, status |-> devices[d].status]
            ELSE alerts

(***************************************************************************)
(* Manager.GetClient: the whole method runs with the manager lock held.    *)
(***************************************************************************)
CanLock == mutex = NoTask

(* a GetClient that turns away disabled devices only                       *)
EligibleUnlessDisabled(row) == row.status \in DeviceStatus \ {DeviceStatusDisabled}

Eligible(row) == row.status \in {DeviceStatusApproved, DeviceStatusConnected}

(* the device had an identifier but its session is gone                    *)
LostSession(row) == row.jid # NoJID /\ row.jid \notin sessions

Allocated == {c \in Clients : clients[c].dev # 0}
CanCreate == Allocated # Clients
NewClientId == CHOOSE c \in Clients \ Allocated : \A o \in Clients \ Allocated : c <= o

(* a GetClient that never finds its device in the registry                 *)
CacheMiss(d) == FALSE

(* if client, exists := m.clients[deviceID]; exists                        *)
CacheHit(d) == registry[d] # NoClient

(* NewClient + m.clients[deviceID] = client                                *)
StoreNewClient(d, sid) ==
  /\ CanCreate
  /\ clients' = [clients EXCEPT ![NewClientId] = ClientRec(d, sid)]
  /\ registry' = [registry EXCEPT ![d] = NewClientId]
  /\ gcReturned' = [gcReturned EXCEPT ![d] = @ \cup {NewClientId}]
  /\ gcCreated' = [gcCreated EXCEPT ![d] = @ \cup {NewClientId}]
  /\ gcCalls' = [gcCalls EXCEPT ![d] = @ + 1]

ReturnCached(d) ==
  /\ gcReturned' = [gcReturned EXCEPT ![d] = @ \cup {registry[d]}]
  /\ gcCalls' = [gcCalls EXCEPT ![d] = @ + 1]
  /\ UNCHANGED <<clients, registry, gcCreated>>

(* delete(m.clients, deviceID)                                             *)
Evict(d) ==
  /\ registry' = [registry EXCEPT ![d] = NoClient]
  /\ gcReturned' = [gcReturned EXCEPT ![d] = {}]
  /\ gcCreated' = [gcCreated EXCEPT ![d] = {}]
  /\ gcCalls' = [gcCalls EXCEPT ![d] = 0]

(* what a GetClient call that has taken the lock does                      *)
GetClientOutcome(d) ==
  IF CacheHit(d) THEN "hit"
  ELSE IF ~Eligible(devices[d]) THEN "not_eligible"
  ELSE IF LostSession(devices[d]) THEN "lost"
  ELSE "create"

(* lines 120-164 and, when no row has to be written, 186-207: caller k     *)
(* takes the lock; it keeps it only if the lost session has to be recorded *)
GetClient(k, d) ==
  /\ CanLock
  /\ \/ /\ GetClientOutcome(d) = "hit"
        /\ ReturnCached(d)
        /\ UNCHANGED mutex
     \/ /\ GetClientOutcome(d) = "not_eligible"
        /\ UNCHANGED <<clients, registry, mutex, histVars>>
     \/ /\ GetClientOutcome(d) = "create"
        /\ StoreNewClient(d, devices[d].jid)
        /\ UNCHANGED mutex
     \/ /\ GetClientOutcome(d) = "lost"
        /\ mutex' = k
        /\ UNCHANGED <<clients, registry, histVars>>

(* the Client a GetClient call returns in the step where it finishes       *)
GetClientResult(d) ==
  IF GetClientOutcome(d) = "hit" THEN registry[d] ELSE NewClientId

(* a GetClient that replaces a lost session without writing the row        *)
GetClientLostKeepingJid(k, d, st) ==
  /\ mutex = k
  /\ UNCHANGED <<devices, everConn>>
  /\ StoreNewClient(d, NoJID)
  /\ mutex' = NoTask

(* lines 167-207: the session was lost: UpdateDevice(jid NULL, reauth)     *)
(* from the row read at line 129, a new unpaired session, the Client is    *)
(* stored, the lock is released                                            *)
GetClientLost(k, d, st) ==
  /\ mutex = k
  /\ UpdateDevice(d, DeviceRow(st, NoJID, TRUE))
  /\ StoreNewClient(d, NoJID)
  /\ mutex' = NoTask

(***************************************************************************)
(* Client.Connect(), run by caller k on the Client conn[k].cl.             *)
(***************************************************************************)
(* the row Connect() and handleConnected write once the session carries an *)
(* identifier: status, jid and requires_reauth of the row just read are    *)
(* all overwritten                                                         *)
ConnectedRowKeepingReauth(row, sid) == DeviceRow(DeviceStatusConnected, sid, row.reauth)

ConnectedRow(row, sid) == DeviceRow(DeviceStatusConnected, sid, FALSE)

ConnectErrors == {"err_outdated", "err_critical", "err_other"}
ConnectRunning == {"dial", "dialing", "read", "write", "flag"}

(* somebody still reads the value Connect() returns                        *)
Waiting(k) ==
  \/ k \in Tasks /\ task[k].pc = "cs_wait"
  \/ \E r \in QRRequests : k = QRCaller(r) /\ qr[r].pc = "q_connect"

Return(k, res) == IF Waiting(k) THEN [IdleConn EXCEPT !.pc = res] ELSE IdleConn

(* line 62, c.Client.Connect(): the dial starts; a session whose socket is *)
(* already open answers ErrAlreadyConnected; while another Connect() is    *)
(* dialling, the library's socket lock makes this one wait                 *)
ConnectDial(k) ==
  LET c == conn[k].cl IN
  /\ conn[k].pc = "dial"
  /\ \/ /\ clients[c].sock = "closed"
        /\ clients' = [clients EXCEPT ![c].sock = "dialing"]
        /\ conn' = [conn EXCEPT ![k].pc = "dialing"]
     \/ /\ clients[c].sock = "open"
        /\ conn' = [conn EXCEPT ![k] = Return(k, "err_other")]
        /\ UNCHANGED clients
  /\ UNCHANGED <<extVars, dbVars, registry, mutex, nsWired, boot, task, sem, hc, apiVars, alerts,
                 evVars, qrVars, histVars>>

(* lines 62-65: c.Client.Connect() returns: the socket is open, or the     *)
(* dial failed and its error is returned                                   *)
ConnectDialed(k) ==
  LET c == conn[k].cl IN
  /\ conn[k].pc = "dialing"
  /\ \/ /\ clients' = [clients EXCEPT ![c].sock = "open"]
        /\ conn' = [conn EXCEPT ![k].pc = "read"]
     \/ /\ clients' = [clients EXCEPT ![c].sock = "closed"]
        /\ \E e \in ConnectErrors : conn' = [conn EXCEPT ![k] = Return(k, e)]
  /\ UNCHANGED <<extVars, dbVars, registry, mutex, nsWired, boot, task, sem, hc, apiVars, alerts,
                 evVars, qrVars, histVars>>

(* lines 68-80: GetDeviceByID, then the test of c.Client.Store.ID          *)
ConnectRead(k) ==
  LET c == conn[k].cl IN
  /\ conn[k].pc = "read"
  /\ conn' = IF clients[c].storeID # NoJID
             THEN [conn EXCEPT ![k].pc = "write", ![k].sid = clients[c].storeID]
             ELSE [conn EXCEPT ![k].pc = "flag"]
  /\ UNCHANGED <<extVars, dbVars, clients, registry, mutex, nsWired, boot, task, sem, hc, apiVars,
                 alerts, evVars, qrVars, histVars>>

(* lines 74-88: status connected, jid, requires_reauth false; UpdateDevice *)
ConnectWrite(k) ==
  LET d == clients[conn[k].cl].dev IN
  /\ conn[k].pc = "write"
  /\ UpdateDevice(d, ConnectedRow(devices[d], conn[k].sid))
  /\ conn' = [conn EXCEPT ![k].pc = "flag", ![k].sid = NoJID]
  /\ UNCHANGED <<extVars, sessions, clients, registry, mutex, nsWired, boot, task, sem, hc,
                 apiVars, alerts, evVars, qrVars, histVars>>

(* lines 91-95: c.connected = true; return nil                             *)
ConnectFlag(k) ==
  LET c == conn[k].cl IN
  /\ conn[k].pc = "flag"
  /\ clients' = [clients EXCEPT ![c].connected = TRUE]
  /\ conn' = [conn EXCEPT ![k] = Return(k, "ok")]
  /\ UNCHANGED <<extVars, dbVars, registry, mutex, nsWired, boot, task, sem, hc, apiVars, alerts,
                 evVars, qrVars, histVars>>

(***************************************************************************)
(* Manager.ConnectClientSafely, run by task t.                             *)
(***************************************************************************)
(* lines 372-385: a cached Client that reports connected ends the call;    *)
(* one that does not is deleted from the registry                          *)
ConnectClientSafelyCheck(t) ==
  LET d == task[t].dev IN
  /\ task[t].pc = "cs_start"
  /\ CanLock
  /\ IF CacheHit(d) /\ IsConnected(registry[d])
     THEN /\ task' = [task EXCEPT ![t].pc = "done", ![t].res = "ok"]
          /\ UNCHANGED <<registry, histVars>>
     ELSE /\ task' = [task EXCEPT ![t].pc = "cs_get"]
          /\ IF CacheHit(d) THEN Evict(d) ELSE UNCHANGED <<registry, histVars>>
  /\ UNCHANGED <<extVars, dbVars, clients, mutex, nsWired, boot, conn, sem, hc, apiVars, alerts,
                 evVars, qrVars>>

(* lines 401-404: go func() { connectChan <- client.Connect() }()          *)
Spawned(t, c) == [conn EXCEPT ![t] = [IdleConn EXCEPT !.pc = "dial", !.cl = c]]

(* line 388: client, err := m.GetClient(deviceID); with a Client in hand   *)
(* the goroutine that runs Connect() is started                            *)
ConnectClientSafelyGet(t) ==
  LET d == task[t].dev
      out == GetClientOutcome(d) IN
  /\ task[t].pc = "cs_get"
  /\ conn[t].pc = "none"
  /\ GetClient(t, d)
  /\ task' = [task EXCEPT ![t] =
       CASE out = "not_eligible" -> [@ EXCEPT !.pc = "cs_notify", !.res = "err_get"]
         [] out = "lost" -> [@ EXCEPT !.pc = "cs_get2", !.snap = devices[d].status]
         [] OTHER -> [@ EXCEPT !.pc = "cs_wait", !.cl = GetClientResult(d)]]
  /\ conn' = IF out \in {"hit", "create"} THEN Spawned(t, GetClientResult(d)) ELSE conn
  /\ UNCHANGED <<extVars, dbVars, nsWired, boot, sem, hc, apiVars, alerts, evVars, qrVars>>

(* GetClient, second half, when the stored identifier has no session       *)
ConnectClientSafelyGet2(t) ==
  /\ task[t].pc = "cs_get2"
  /\ GetClientLost(t, task[t].dev, task[t].snap)
  /\ task' = [task EXCEPT ![t].pc = "cs_wait", ![t].cl = NewClientId, ![t].snap = "none"]
  /\ conn' = Spawned(t, NewClientId)
  /\ UNCHANGED <<extVars, sessions, nsWired, boot, sem, hc, apiVars, alerts, evVars, qrVars>>

(* lines 389-398: GetClient failed: the device is looked up and the alert  *)
(* is raised                                                               *)
ConnectClientSafelyGetFailed(t) ==
  /\ task[t].pc = "cs_notify"
  /\ Raise(task[t].dev, "device_connection_error")
  /\ task' = [task EXCEPT ![t].pc = "done"]
  /\ UNCHANGED <<extVars, dbVars, clients, registry, mutex, nsWired, boot, conn, sem, hc, apiVars,
                 evVars, qrVars, histVars>>

(* lines 408-430: Connect() has returned                                   *)
ConnectClientSafelyResult(t) ==
  /\ task[t].pc = "cs_wait"
  /\ \/ /\ conn[t].pc = "ok"
        /\ task' = [task EXCEPT ![t].pc = "done", ![t].res = "ok"]
        /\ UNCHANGED alerts
     \/ /\ conn[t].pc \in ConnectErrors
        /\ Raise(task[t].dev,
                 IF conn[t].pc = "err_outdated" THEN "client_outdated"
                 ELSE "device_connection_error")
        /\ task' = [task EXCEPT ![t].pc = "done",
                                ![t].res = IF conn[t].pc = "err_critical" THEN "err_critical"
                                           ELSE "err_conn"]
  /\ conn' = [conn EXCEPT ![t] = IdleConn]
  /\ UNCHANGED <<extVars, dbVars, clients, registry, mutex, nsWired, boot, sem, hc, apiVars,
                 evVars, qrVars, histVars>>

(* a timeout that is an error only when somebody is notified of it         *)
ConnectClientSafelyTimeoutNotified(t) ==
  /\ task[t].pc = "cs_wait"
  /\ conn[t].pc \in ConnectRunning
  /\ Raise(task[t].dev, "device_connection_error")
  /\ task' = [task EXCEPT ![t].pc = "done", ![t].res = IF nsWired THEN "timeout" ELSE "ok"]
  /\ UNCHANGED <<extVars, dbVars, clients, registry, mutex, nsWired, boot, conn, sem, hc, apiVars,
                 evVars, qrVars, histVars>>

(* lines 432-441: 30 seconds passed and Connect() has not returned; the    *)
(* goroutine running it is left behind                                     *)
ConnectClientSafelyTimeout(t) ==
  /\ task[t].pc = "cs_wait"
  /\ conn[t].pc \in ConnectRunning
  /\ Raise(task[t].dev, "device_connection_error")
  /\ task' = [task EXCEPT ![t].pc = "done", ![t].res = "timeout"]
  /\ UNCHANGED <<extVars, dbVars, clients, registry, mutex, nsWired, boot, conn, sem, hc, apiVars,
                 evVars, qrVars, histVars>>

(***************************************************************************)
(* POST /devices/:id/send: the handler hands the id it was given to        *)
(* Manager.SendTextMessage, which calls GetClient for it; no row is read   *)
(* before that.                                                            *)
(***************************************************************************)
SendCaller == NumDevices + NumQRRequests + 1

(* the error GetClient returns without a Client: "dispositivo não          *)
(* encontrado" for a nil row, "dispositivo não está aprovado" otherwise    *)
GetClientError(d) == IF devices[d] = NoRow THEN "NotFound" ELSE "NotEligible"

(* Client.SendTextMessage: a Client that is not connected refuses          *)
SendResult(connected) == IF connected THEN "sent" ELSE "not_connected"

(* SendTextMessage up to the point where GetClient returns or has to       *)
(* record a lost session                                                   *)
SendTextMessage(d) ==
  LET out == GetClientOutcome(d) IN
  /\ boot = "serving"
  /\ send.pc \in {"idle", "done"}
  /\ send.n < MaxTextSends
  /\ GetClient(SendCaller, d)
  /\ send' =
       CASE out = "not_eligible" ->
              [pc |-> "done", dev |-> d, snap |-> "none", res |-> GetClientError(d),
               n |-> send.n + 1]
         [] out = "lost" ->
              [pc |-> "lost", dev |-> d, snap |-> devices[d].status, res |-> "none",
               n |-> send.n + 1]
         [] OTHER ->
              [pc |-> "done", dev |-> d, snap |-> "none",
               res |-> SendResult(out = "hit" /\ IsConnected(registry[d])), n |-> send.n + 1]
  /\ UNCHANGED <<msgVars, notifVars, hookVars, dbVars, nsWired, boot, task, conn, sem, hc,
                 apiVars, alerts, evVars, qrVars>>

(* GetClient, second half, then Client.SendTextMessage on the new Client   *)
SendTextMessage2 ==
  /\ send.pc = "lost"
  /\ GetClientLost(SendCaller, send.dev, send.snap)
  /\ send' = [send EXCEPT !.pc = "done", !.snap = "none", !.res = SendResult(FALSE)]
  /\ UNCHANGED <<msgVars, notifVars, hookVars, sessions, nsWired, boot, task, conn, sem, hc,
                 apiVars, alerts, evVars, qrVars>>

(***************************************************************************)
(* Startup: InitializeWithCleanup runs CleanCorruptedSessions, then        *)
(* HealthCheckClients (the registry is still empty), then                  *)
(* ConnectAllApproved; the HTTP server starts afterwards, while the tasks  *)
(* of ConnectAllApproved are still running.                                *)
(***************************************************************************)
(* lines 517-523 and 545-560: rows flagged requires_reauth, neither        *)
(* connected nor disabled, whose identifier has no session                 *)
NeedsCleaning(d) ==
  /\ devices[d].reauth
  /\ devices[d].status \notin {DeviceStatusConnected, DeviceStatusDisabled}
  /\ LostSession(devices[d])

(* lines 565-582: the Client is disconnected and dropped from the registry *)
(* (without the manager lock), the row's session data is cleared           *)
CleanCorruptedSessions ==
  /\ boot = "clean"
  /\ boot' = "connect"
  /\ devices' = [d \in Devices |->
                   IF NeedsCleaning(d) THEN ClearedRow(devices[d]) ELSE devices[d]]
  /\ clients' = [c \in Clients |->
                   IF /\ clients[c].dev # 0
                      /\ NeedsCleaning(clients[c].dev)
                      /\ registry[clients[c].dev] = c
                   THEN [clients[c] EXCEPT !.sock = "closed"]
                   ELSE clients[c]]
  /\ registry' = [d \in Devices |-> IF NeedsCleaning(d) THEN NoClient ELSE registry[d]]
  /\ gcReturned' = [d \in Devices |-> IF NeedsCleaning(d) THEN {} ELSE gcReturned[d]]
  /\ gcCreated' = [d \in Devices |-> IF NeedsCleaning(d) THEN {} ELSE gcCreated[d]]
  /\ gcCalls' = [d \in Devices |-> IF NeedsCleaning(d) THEN 0 ELSE gcCalls[d]]
  /\ UNCHANGED <<extVars, everConn, sessions, mutex, nsWired, task, conn, sem, hc, apiVars,
                 alerts, evVars, qrVars>>

(* a second loop that takes every approved row                            *)
BulkOriginAnyApproved(row) ==
  IF row.status = DeviceStatusConnected THEN "bulk_connected"
  ELSE IF row.status = DeviceStatusApproved THEN "bulk_approved" ELSE "none"

(* lines 287-293 and 302-306, 322, 345-347: which loop picks the row up    *)
BulkOrigin(row) ==
  IF row.status = DeviceStatusConnected THEN "bulk_connected"
  ELSE IF row.status = DeviceStatusApproved /\ row.jid # NoJID /\ ~row.reauth
       THEN "bulk_approved"
       ELSE "none"

(* lines 283-366: one query, then one goroutine per selected device; each  *)
(* goroutine first waits for a token of the semaphore                      *)
ConnectAllApproved ==
  /\ boot = "connect"
  /\ boot' = "serving"
  /\ task' = [t \in Tasks |->
                IF BulkOrigin(devices[t]) # "none"
                THEN [IdleTask EXCEPT !.pc = "queued", !.dev = t,
                                      !.origin = BulkOrigin(devices[t])]
                ELSE task[t]]
  /\ UNCHANGED <<extVars, dbVars, clients, registry, mutex, nsWired, conn, sem, hc, apiVars,
                 alerts, evVars, qrVars, histVars>>

(* lines 324 and 349: semaphore <- struct{}{}                              *)
BulkAcquire(t) ==
  /\ task[t].pc = "queued"
  /\ sem < SemaphoreSize
  /\ sem' = sem + 1
  /\ task' = [task EXCEPT ![t].pc = "cs_start"]
  /\ UNCHANGED <<extVars, dbVars, clients, registry, mutex, nsWired, boot, conn, hc, apiVars,
                 alerts, evVars, qrVars, histVars>>

(* lines 481-507: the error text names a failure that calls for a new      *)
(* pairing                                                                 *)
IsCriticalConnectionError(res) == res = "err_critical"

(* lines 329-341, 354-359 and the deferred <-semaphore: ConnectClientSafely *)
(* has returned; a "connected" device whose reconnection failed critically *)
(* is demoted to approved                                                  *)
BulkRelease(t) ==
  /\ task[t].pc = "done"
  /\ task[t].origin \in {"bulk_connected", "bulk_approved"}
  /\ IF task[t].origin = "bulk_connected" /\ IsCriticalConnectionError(task[t].res)
     THEN UpdateDeviceStatus(task[t].dev, DeviceStatusApproved)
     ELSE UNCHANGED <<devices, everConn>>
  /\ sem' = sem - 1
  /\ task' = [task EXCEPT ![t] = [IdleTask EXCEPT !.pc = "released", !.dev = task[t].dev,
                                                  !.res = task[t].res]]
  /\ UNCHANGED <<extVars, sessions, clients, registry, mutex, nsWired, boot, conn, hc, apiVars,
                 alerts, evVars, qrVars, histVars>>

(***************************************************************************)
(* HealthCheckClients: ranges over m.clients without the manager lock.     *)
(* Entries present when the range starts are produced unless they are      *)
(* deleted first; entries added meanwhile may be produced or skipped.      *)
(***************************************************************************)
HealthCheckStart ==
  /\ boot = "serving"
  /\ hc.pc = "idle"
  /\ hc' = [hc EXCEPT !.pc = "scan", !.todo = {d \in Devices : registry[d] # NoClient}]
  /\ UNCHANGED <<extVars, dbVars, clients, registry, mutex, nsWired, boot, task, conn, sem,
                 apiVars, alerts, evVars, qrVars, histVars>>

(* lines 601-611: one iteration; a Client that does not report connected   *)
(* is deleted from the registry                                            *)
HealthCheckScan ==
  /\ hc.pc = "scan"
  /\ \/ /\ \A d \in hc.todo : registry[d] = NoClient
        /\ hc' = IdleHC
        /\ UNCHANGED <<registry, histVars>>
     \/ \E d \in Devices :
          /\ registry[d] # NoClient
          /\ IF ~IsConnected(registry[d])
             THEN /\ Evict(d)
                  /\ hc' = [hc EXCEPT !.pc = "read", !.dev = d, !.todo = @ \ {d}]
             ELSE /\ d \in hc.todo
                  /\ hc' = [hc EXCEPT !.todo = @ \ {d}]
                  /\ UNCHANGED <<registry, histVars>>
  /\ UNCHANGED <<extVars, dbVars, clients, mutex, nsWired, boot, task, conn, sem, apiVars, alerts,
                 evVars, qrVars>>

(* line 613: device, err := m.db.GetDeviceByID(deviceID)                   *)
HealthCheckRead ==
  /\ hc.pc = "read"
  /\ hc' = [hc EXCEPT !.pc = "write", !.row = devices[hc.dev]]
  /\ UNCHANGED <<extVars, dbVars, clients, registry, mutex, nsWired, boot, task, conn, sem,
                 apiVars, alerts, evVars, qrVars, histVars>>

(* a health check that only drops the Client                              *)
DemotedRowUnchanged(row) == row

(* lines 615-616: device.Status = approved; device.RequiresReauth = true   *)
DemotedRow(row) == [row EXCEPT !.status = DeviceStatusApproved, !.reauth = TRUE]

(* lines 615-617: status approved, requires_reauth, UpdateDevice           *)
HealthCheckWrite ==
  /\ hc.pc = "write"
  /\ UpdateDevice(hc.dev, DemotedRow(hc.row))
  /\ hc' = [hc EXCEPT !.pc = "scan", !.dev = 0, !.row = NoRow]
  /\ UNCHANGED <<extVars, sessions, clients, registry, mutex, nsWired, boot, task, conn, sem,
                 apiVars, alerts, evVars, qrVars, histVars>>

(***************************************************************************)
(* HTTP API.                                                               *)
(***************************************************************************)
(* PUT /devices/:id/status: UpdateDeviceStatus; a device set to disabled   *)
(* has its Client disconnected afterwards                                  *)
APIUpdateDeviceStatus(d, st) ==
  /\ boot = "serving"
  /\ nUpdates < MaxStatusUpdates
  /\ nUpdates' = nUpdates + 1
  /\ UpdateDeviceStatus(d, st)
  /\ pendingDisc' = IF st = DeviceStatusDisabled THEN pendingDisc \cup {d} ELSE pendingDisc
  /\ UNCHANGED <<extVars, sessions, clients, registry, mutex, nsWired, boot, task, conn, sem, hc,
                 alerts, evVars, qrVars, histVars>>

(* Client.Disconnect(): the socket is closed (after a dial in progress,    *)
(* which holds the library's socket lock), the flag is cleared             *)
Disconnected(c) ==
  [clients EXCEPT ![c].sock = "closed", ![c].connected = FALSE]

(* Manager.DisconnectClient: the Client is read from the registry under    *)
(* the lock and disconnected; its registry entry stays                     *)
DisconnectClient(d) ==
  /\ d \in pendingDisc
  /\ CanLock
  /\ registry[d] # NoClient => clients[registry[d]].sock # "dialing"
  /\ pendingDisc' = pendingDisc \ {d}
  /\ clients' = IF registry[d] # NoClient THEN Disconnected(registry[d]) ELSE clients
  /\ UNCHANGED <<extVars, dbVars, registry, mutex, nsWired, boot, task, conn, sem, hc, nUpdates,
                 alerts, evVars, qrVars, histVars>>

(* POST /admin/devices/:id/reconnect: the device needs a stored            *)
(* identifier; go ConnectClient(id), which is ConnectClientSafely          *)
ReconnectDevice(t, d) ==
  /\ boot = "serving"
  /\ task[t].pc = "idle"
  /\ \A u \in ConnTasks : u < t => task[u].pc # "idle"
  /\ devices[d].jid # NoJID
  /\ task' = [task EXCEPT ![t] = [IdleTask EXCEPT !.pc = "cs_start", !.dev = d,
                                                  !.origin = "admin"]]
  /\ UNCHANGED <<extVars, dbVars, clients, registry, mutex, nsWired, boot, conn, sem, hc, apiVars,
                 alerts, evVars, qrVars, histVars>>

(***************************************************************************)
(* The protocol library, as the service sees it.  A session dispatches one *)
(* event at a time to Client.handleEvents.                                 *)
(***************************************************************************)
CanEmit(c) ==
  /\ clients[c].dev # 0
  /\ clients[c].sock = "open"
  /\ ev[c] = NoEvent
  /\ nEvents < MaxEvents

Emitted(kind, pc, code) ==
  [kind |-> kind, pc |-> pc, n |-> 1, row |-> NoRow, code |-> code, id |-> nEvents + 1]

(* the phone scans the code: the session gets an identifier and is stored  *)
PairSuccess(c, j) ==
  /\ clients[c].dev # 0
  /\ clients[c].sock = "open"
  /\ clients[c].storeID = NoJID
  /\ \E ch \in Channels : chans[ch].cl = c /\ chans[ch].carried # <<>>
  /\ clients' = [clients EXCEPT ![c].storeID = j]
  /\ sessions' = sessions \cup {j}
  /\ UNCHANGED <<extVars, devices, everConn, registry, mutex, nsWired, boot, task, conn, sem, hc,
                 apiVars, alerts, evVars, qrVars, histVars>>

(* the paired session has authenticated: events.Connected                  *)
LibConnected(c) ==
  /\ CanEmit(c)
  /\ clients[c].storeID # NoJID
  /\ ev' = [ev EXCEPT ![c] = Emitted("Connected", "eh_read", NoCode)]
  /\ nEvents' = nEvents + 1
  /\ UNCHANGED <<extVars, dbVars, clients, registry, mutex, nsWired, boot, task, conn, sem, hc,
                 apiVars, alerts, gor, qrVars, histVars>>

(* the server closed the socket: events.Disconnected                       *)
LibDisconnected(c) ==
  /\ CanEmit(c)
  /\ clients' = [clients EXCEPT ![c].sock = "closed"]
  /\ ev' = [ev EXCEPT ![c] = Emitted("Disconnected", "eh_read", NoCode)]
  /\ nEvents' = nEvents + 1
  /\ UNCHANGED <<extVars, dbVars, registry, mutex, nsWired, boot, task, conn, sem, hc, apiVars,
                 alerts, gor, qrVars, histVars>>

(* the phone removed the linked device: the library deletes the stored     *)
(* session, closes the socket and emits events.LoggedOut                   *)
LibLoggedOut(c) ==
  /\ CanEmit(c)
  /\ clients[c].storeID # NoJID
  /\ clients' = [clients EXCEPT ![c].sock = "closed", ![c].storeID = NoJID]
  /\ sessions' = sessions \ {clients[c].storeID}
  /\ ev' = [ev EXCEPT ![c] = Emitted("LoggedOut", "eh_read", NoCode)]
  /\ nEvents' = nEvents + 1
  /\ UNCHANGED <<extVars, devices, everConn, registry, mutex, nsWired, boot, task, conn, sem, hc,
                 apiVars, alerts, gor, qrVars, histVars>>

(* an unpaired session is offered pairing codes: events.QR.  HandleEvent   *)
(* has no case for it, so the dispatch goes on to the Client's handler     *)
LibQR(c) ==
  /\ CanEmit(c)
  /\ clients[c].storeID = NoJID
  /\ nCodes < MaxCodes
  /\ ev' = [ev EXCEPT ![c] = Emitted("QR", "client", nCodes + 1)]
  /\ nEvents' = nEvents + 1
  /\ nCodes' = nCodes + 1
  /\ UNCHANGED <<extVars, dbVars, clients, registry, mutex, nsWired, boot, task, conn, sem, hc,
                 apiVars, alerts, gor, qr, chans, histVars>>

(***************************************************************************)
(* EventHandler.HandleEvent, which Client.handleEvents calls first, once   *)
(* for each of the subscriptions GetClient made.                           *)
(***************************************************************************)
(* handlers.go lines 106-159: what the handler changes in the row it read  *)
EventRow(kind, row) ==
  CASE kind = "Connected" -> [row EXCEPT !.status = DeviceStatusConnected, !.reauth = FALSE]
    [] kind = "LoggedOut" -> [row EXCEPT !.status = DeviceStatusApproved, !.reauth = TRUE]
    [] OTHER -> row

(* device, err := h.DB.GetDeviceByID(deviceID)                             *)
HandleEventRead(c) ==
  /\ ev[c].pc = "eh_read"
  /\ ev' = [ev EXCEPT ![c].pc = "eh_write", ![c].row = devices[clients[c].dev]]
  /\ UNCHANGED <<extVars, dbVars, clients, registry, mutex, nsWired, boot, task, conn, sem, hc,
                 apiVars, alerts, nEvents, gor, qrVars, histVars>>

(* h.DB.UpdateDevice(device)                                               *)
HandleEventWrite(c) ==
  /\ ev[c].pc = "eh_write"
  /\ UpdateDevice(clients[c].dev, EventRow(ev[c].kind, ev[c].row))
  /\ ev' = [ev EXCEPT ![c] =
       IF ev[c].n < HandlerRegistrations
       THEN [@ EXCEPT !.pc = "eh_read", !.n = @ + 1, !.row = NoRow]
       ELSE [@ EXCEPT !.pc = "client", !.row = NoRow]]
  /\ UNCHANGED <<extVars, sessions, clients, registry, mutex, nsWired, boot, task, conn, sem, hc,
                 apiVars, alerts, nEvents, gor, qrVars, histVars>>

(***************************************************************************)
(* The Client's own handlers, and the goroutines they start.               *)
(***************************************************************************)
Goroutine(c, kind, pc) ==
  [id |-> ev[c].id, cl |-> c, kind |-> kind, pc |-> pc, sid |-> NoJID, row |-> NoRow]

AtClientHandler(c, kind) == ev[c].kind = kind /\ ev[c].pc = "client"

(* part_006 lines 184-215: go func() {...}(); c.connected = true           *)
ClientHandleConnected(c) ==
  /\ AtClientHandler(c, "Connected")
  /\ gor' = gor \cup {Goroutine(c, "connected", "read")}
  /\ clients' = [clients EXCEPT ![c].connected = TRUE]
  /\ ev' = [ev EXCEPT ![c] = NoEvent]
  /\ UNCHANGED <<extVars, dbVars, registry, mutex, nsWired, boot, task, conn, sem, hc, apiVars,
                 alerts, nEvents, qrVars, histVars>>

(* lines 218-234: c.connected = false; go func() {...}()                   *)
ClientHandleDisconnected(c) ==
  /\ AtClientHandler(c, "Disconnected")
  /\ gor' = gor \cup {Goroutine(c, "disconnected", "notify")}
  /\ clients' = [clients EXCEPT ![c].connected = FALSE]
  /\ ev' = [ev EXCEPT ![c] = NoEvent]
  /\ UNCHANGED <<extVars, dbVars, registry, mutex, nsWired, boot, task, conn, sem, hc, apiVars,
                 alerts, nEvents, qrVars, histVars>>

(* lines 252-280: go func() {...}(); c.connected = false                   *)
ClientHandleLoggedOut(c) ==
  /\ AtClientHandler(c, "LoggedOut")
  /\ gor' = gor \cup {Goroutine(c, "loggedout", "reauth")}
  /\ clients' = [clients EXCEPT ![c].connected = FALSE]
  /\ ev' = [ev EXCEPT ![c] = NoEvent]
  /\ UNCHANGED <<extVars, dbVars, registry, mutex, nsWired, boot, task, conn, sem, hc, apiVars,
                 alerts, nEvents, qrVars, histVars>>

(* handleConnected's goroutine, lines 187-193: GetDeviceByID and the test  *)
(* of c.Client.Store.ID                                                    *)
GoConnectedRead(g) ==
  /\ g \in gor /\ g.kind = "connected" /\ g.pc = "read"
  /\ gor' = IF clients[g.cl].storeID # NoJID
            THEN (gor \ {g}) \cup {[g EXCEPT !.pc = "write", !.sid = clients[g.cl].storeID]}
            ELSE gor \ {g}
  /\ UNCHANGED <<extVars, dbVars, clients, registry, mutex, nsWired, boot, task, conn, sem, hc,
                 apiVars, alerts, ev, nEvents, qrVars, histVars>>

(* lines 194-208: status connected, jid, requires_reauth false; UpdateDevice *)
GoConnectedWrite(g) ==
  LET d == clients[g.cl].dev IN
  /\ g \in gor /\ g.kind = "connected" /\ g.pc = "write"
  /\ UpdateDevice(d, ConnectedRow(devices[d], g.sid))
  /\ gor' = gor \ {g}
  /\ UNCHANGED <<extVars, sessions, clients, registry, mutex, nsWired, boot, task, conn, sem, hc,
                 apiVars, alerts, ev, nEvents, qrVars, histVars>>

(* handleDisconnected's goroutine, lines 224-233: the device is looked up  *)
(* and the "disconnected" alert is raised                                  *)
GoDisconnectedNotify(g) ==
  /\ g \in gor /\ g.kind = "disconnected" /\ g.pc = "notify"
  /\ Raise(clients[g.cl].dev, "device_disconnected")
  /\ gor' = gor \ {g}
  /\ UNCHANGED <<extVars, dbVars, clients, registry, mutex, nsWired, boot, task, conn, sem, hc,
                 apiVars, ev, nEvents, qrVars, histVars>>

(* handleLoggedOut's goroutine, line 255: SetDeviceRequiresReauth          *)
GoLoggedOutReauth(g) ==
  /\ g \in gor /\ g.kind = "loggedout" /\ g.pc = "reauth"
  /\ SetDeviceRequiresReauth(clients[g.cl].dev)
  /\ gor' = (gor \ {g}) \cup {[g EXCEPT !.pc = "status"]}
  /\ UNCHANGED <<extVars, sessions, clients, registry, mutex, nsWired, boot, task, conn, sem, hc,
                 apiVars, alerts, ev, nEvents, qrVars, histVars>>

(* line 261: UpdateDeviceStatus(approved)                                  *)
GoLoggedOutStatus(g) ==
  /\ g \in gor /\ g.kind = "loggedout" /\ g.pc = "status"
  /\ UpdateDeviceStatus(clients[g.cl].dev, DeviceStatusApproved)
  /\ gor' = (gor \ {g}) \cup {[g EXCEPT !.pc = "notify"]}
  /\ UNCHANGED <<extVars, sessions, clients, registry, mutex, nsWired, boot, task, conn, sem, hc,
                 apiVars, alerts, ev, nEvents, qrVars, histVars>>

(* lines 267-274: the device is looked up, the "requires reauth" alert is  *)
(* raised and the goroutine ends; g.row keeps the row it leaves behind     *)
GoLoggedOutNotify(g) ==
  /\ g \in gor /\ g.kind = "loggedout" /\ g.pc = "notify"
  /\ Raise(clients[g.cl].dev, "device_requires_reauth")
  /\ gor' = (gor \ {g}) \cup {[g EXCEPT !.pc = "done", !.row = devices[clients[g.cl].dev]]}
  /\ UNCHANGED <<extVars, dbVars, clients, registry, mutex, nsWired, boot, task, conn, sem, hc,
                 apiVars, ev, nEvents, qrVars, histVars>>

(***************************************************************************)
(* The QR hand-off: Client.GetQRChannel, Client.handleQR and the request   *)
(* handler GetQRCode (GET /devices/:id/qrcode), run by request r.          *)
(***************************************************************************)
OpenChannels == {ch \in Channels : chans[ch].cl # NoClient}
NewChannelId ==
  CHOOSE ch \in Channels \ OpenChannels : \A o \in Channels \ OpenChannels : ch <= o

(* the request that is blocked in its select on channel ch                 *)
ReceiverWaiting(ch) == \E r \in QRRequests : qr[r].pc = "q_select" /\ qr[r].ch = ch

(* a send that waits for a receiver instead of giving up                   *)
TrySendBlocking(ch) == IF ReceiverWaiting(ch) THEN "sent" ELSE "blocked"

(* a send on a channel that has room for the value                         *)
TrySendBuffered(ch) == "sent"

(* part_006 lines 242-247: select { case c.qrChannel <- code: default: }   *)
(* on an unbuffered channel: the value passes only to a receiver that is   *)
(* already waiting                                                         *)
TrySend(ch) == IF ReceiverWaiting(ch) THEN "sent" ELSE "dropped"

(* part_006 lines 237-249: handleQR, under the Client's lock               *)
ClientHandleQR(c) ==
  LET ch == clients[c].qrChannel
      code == ev[c].code
      out == IF ch = NoChannel THEN "dropped" ELSE TrySend(ch) IN
  /\ AtClientHandler(c, "QR")
  /\ out # "blocked"
  /\ chans' = [x \in Channels |->
       IF chans[x].cl # c THEN chans[x]
       ELSE [chans[x] EXCEPT
               !.first = IF @ = NoCode THEN code ELSE @,
               !.firstw = IF x = ch /\ ReceiverWaiting(ch) /\ @ = NoCode THEN code ELSE @,
               !.carried = IF x = ch /\ out = "sent" THEN Append(@, code) ELSE @]]
  /\ qr' = [r \in QRRequests |->
       IF out = "sent" /\ qr[r].pc = "q_select" /\ qr[r].ch = ch
       THEN [qr[r] EXCEPT !.pc = "done", !.got = code, !.res = "ok"]
       ELSE qr[r]]
  /\ ev' = [ev EXCEPT ![c] = NoEvent]
  /\ UNCHANGED <<extVars, dbVars, clients, registry, mutex, nsWired, boot, task, conn, sem, hc,
                 apiVars, alerts, nEvents, gor, nCodes, histVars>>

(* part_003 lines 237-251: the device is read and has to be approved       *)
GetQRCodeRead(r, d) ==
  /\ boot = "serving"
  /\ qr[r].pc = "idle"
  /\ \A u \in QRRequests : u < r => qr[u].pc # "idle"
  /\ qr' = [qr EXCEPT ![r] =
       IF devices[d].status # DeviceStatusApproved
       THEN [IdleQR EXCEPT !.pc = "done", !.dev = d, !.res = "err_status"]
       ELSE IF devices[d].reauth
            THEN [IdleQR EXCEPT !.pc = "q_disc", !.dev = d, !.row = devices[d]]
            ELSE [IdleQR EXCEPT !.pc = "q_get", !.dev = d]]
  /\ UNCHANGED <<extVars, dbVars, clients, registry, mutex, nsWired, boot, task, conn, sem, hc,
                 apiVars, alerts, evVars, chans, nCodes, histVars>>

(* line 258: h.WhatsAppMgr.DisconnectClient(id)                            *)
GetQRCodeDisconnect(r) ==
  LET d == qr[r].dev IN
  /\ qr[r].pc = "q_disc"
  /\ CanLock
  /\ registry[d] # NoClient => clients[registry[d]].sock # "dialing"
  /\ clients' = IF registry[d] # NoClient THEN Disconnected(registry[d]) ELSE clients
  /\ qr' = [qr EXCEPT ![r].pc = "q_clear"]
  /\ UNCHANGED <<extVars, dbVars, registry, mutex, nsWired, boot, task, conn, sem, hc, apiVars,
                 alerts, evVars, chans, nCodes, histVars>>

(* lines 261-267: jid NULL, requires_reauth false, UpdateDevice of the row *)
(* read at line 237                                                        *)
GetQRCodeClear(r) ==
  /\ qr[r].pc = "q_clear"
  /\ UpdateDevice(qr[r].dev, [qr[r].row EXCEPT !.jid = NoJID, !.reauth = FALSE])
  /\ qr' = [qr EXCEPT ![r].pc = "q_get", ![r].row = NoRow]
  /\ UNCHANGED <<extVars, sessions, clients, registry, mutex, nsWired, boot, task, conn, sem, hc,
                 apiVars, alerts, evVars, chans, nCodes, histVars>>

(* line 271: client, err := h.WhatsAppMgr.GetClient(id)                    *)
GetQRCodeGet(r) ==
  LET d == qr[r].dev
      out == GetClientOutcome(d) IN
  /\ qr[r].pc = "q_get"
  /\ GetClient(QRCaller(r), d)
  /\ qr' = [qr EXCEPT ![r] =
       CASE out = "not_eligible" -> [@ EXCEPT !.pc = "done", !.res = "err_get"]
         [] out = "lost" -> [@ EXCEPT !.pc = "q_get2", !.row = devices[d]]
         [] OTHER -> [@ EXCEPT !.pc = "q_isconn", !.cl = GetClientResult(d)]]
  /\ UNCHANGED <<extVars, dbVars, nsWired, boot, task, conn, sem, hc, apiVars, alerts, evVars,
                 chans, nCodes>>

(* GetClient, second half, when the stored identifier has no session       *)
GetQRCodeGet2(r) ==
  /\ qr[r].pc = "q_get2"
  /\ GetClientLost(QRCaller(r), qr[r].dev, qr[r].row.status)
  /\ qr' = [qr EXCEPT ![r].pc = "q_isconn", ![r].cl = NewClientId, ![r].row = NoRow]
  /\ UNCHANGED <<extVars, sessions, nsWired, boot, task, conn, sem, hc, apiVars, alerts, evVars,
                 chans, nCodes>>

(* lines 279-282: if client.IsConnected() { 400 }                          *)
GetQRCodeIsConnected(r) ==
  /\ qr[r].pc = "q_isconn"
  /\ qr' = [qr EXCEPT ![r] =
       IF IsConnected(qr[r].cl)
       THEN [@ EXCEPT !.pc = "done", !.res = "err_connected"]
       ELSE [@ EXCEPT !.pc = "q_chan1"]]
  /\ UNCHANGED <<extVars, dbVars, clients, registry, mutex, nsWired, boot, task, conn, sem, hc,
                 apiVars, alerts, evVars, chans, nCodes, histVars>>

(* part_006 lines 115-135, GetQRChannel, called at part_003 lines 288 and  *)
(* 305: a paired session is refused; otherwise a fresh unbuffered channel  *)
(* replaces c.qrChannel.  next is where the request goes on.               *)
GetQRChannel(r, next) ==
  LET c == qr[r].cl IN
  IF clients[c].storeID # NoJID
  THEN /\ qr' = [qr EXCEPT ![r].pc = "done", ![r].res = "err_paired"]
       /\ UNCHANGED <<clients, chans>>
  ELSE /\ chans' = [chans EXCEPT ![NewChannelId] = [ClosedChan EXCEPT !.cl = c]]
       /\ clients' = [clients EXCEPT ![c].qrChannel = NewChannelId]
       /\ qr' = [qr EXCEPT ![r].pc = next, ![r].ch = NewChannelId]

(* lines 288-295: the first channel, then err = client.Connect()           *)
GetQRCodeChannel1(r) ==
  /\ qr[r].pc = "q_chan1"
  /\ GetQRChannel(r, "q_connect")
  /\ conn' = IF clients[qr[r].cl].storeID # NoJID THEN conn
             ELSE [conn EXCEPT ![QRCaller(r)] =
                     [IdleConn EXCEPT !.pc = "dial", !.cl = qr[r].cl]]
  /\ UNCHANGED <<extVars, dbVars, registry, mutex, nsWired, boot, task, sem, hc, apiVars, alerts,
                 evVars, nCodes, histVars>>

(* lines 295-299: the synchronous Connect() has returned                   *)
GetQRCodeConnected(r) ==
  /\ qr[r].pc = "q_connect"
  /\ \/ /\ conn[QRCaller(r)].pc = "ok"
        /\ qr' = [qr EXCEPT ![r].pc = "q_chan2"]
     \/ /\ conn[QRCaller(r)].pc \in ConnectErrors
        /\ qr' = [qr EXCEPT ![r].pc = "done", ![r].res = "err_connect"]
  /\ conn' = [conn EXCEPT ![QRCaller(r)] = IdleConn]
  /\ UNCHANGED <<extVars, dbVars, clients, registry, mutex, nsWired, boot, task, sem, hc, apiVars,
                 alerts, evVars, chans, nCodes, histVars>>

(* lines 305-309: the second channel                                       *)
GetQRCodeChannel2(r) ==
  /\ qr[r].pc = "q_chan2"
  /\ GetQRChannel(r, "q_spawn")
  /\ UNCHANGED <<extVars, dbVars, registry, mutex, nsWired, boot, task, conn, sem, hc, apiVars,
                 alerts, evVars, nCodes, histVars>>

(* lines 312-323: go func() { client.Connect() }(); the request goes on to *)
(* its select                                                              *)
GetQRCodeSpawn(r) ==
  /\ qr[r].pc = "q_spawn"
  /\ conn' = [conn EXCEPT ![QRCaller(r)] = [IdleConn EXCEPT !.pc = "dial", !.cl = qr[r].cl]]
  /\ qr' = [qr EXCEPT ![r].pc = "q_select"]
  /\ UNCHANGED <<extVars, dbVars, clients, registry, mutex, nsWired, boot, task, sem, hc, apiVars,
                 alerts, evVars, chans, nCodes, histVars>>

(* lines 326-331, case <-ctx.Done(): 60 seconds passed without a code      *)
GetQRCodeTimeout(r) ==
  /\ qr[r].pc = "q_select"
  /\ qr' = [qr EXCEPT ![r].pc = "done", ![r].res = "timeout"]
  /\ UNCHANGED <<extVars, dbVars, clients, registry, mutex, nsWired, boot, task, conn, sem, hc,
                 apiVars, alerts, evVars, chans, nCodes, histVars>>

(***************************************************************************)
(* Inbound messages: EventHandler.handleMessage, which HandleEvent runs    *)
(* for an events.Message, once per subscription GetClient made.  The       *)
(* outbound webhook of HandleEvent is not configured.                      *)
(***************************************************************************)
MsgIds == 1 .. NumMsgIds
Chats == {"group", "direct"}
MediaKinds == {"text", "image", "video", "audio", "document"}
AllowedLists == {{}, {"image"}}

(* the goroutine of the library that dispatches events, as a lock holder   *)
MsgCaller == NumDevices + NumQRRequests + 1

(* msg.Info.IsGroup                                                        *)
IsGroup(chat) == chat = "group"

Entity(t, m, a) ==
  [present |-> TRUE, err |-> FALSE, isTracked |-> t, trackMedia |-> m, allowed |-> a]
NoEntity ==
  [present |-> FALSE, err |-> FALSE, isTracked |-> FALSE, trackMedia |-> FALSE, allowed |-> {}]
Entities ==
  {NoEntity} \cup {Entity(t, m, a) : t \in BOOLEAN, m \in BOOLEAN, a \in AllowedLists}

(* db.go lines 497-506: the value synthesised when the chat has no row     *)
DefaultEntity == Entity(FALSE, TRUE, {})

(* the nil *TrackedEntity that comes with an error                         *)
NilEntity == [NoEntity EXCEPT !.err = TRUE]

(* db.go lines 486-511: GetTrackedEntity; failed: the query failed         *)
GetTrackedEntity(chat, failed) ==
  IF failed THEN NilEntity
  ELSE IF ~tracked[chat].present THEN DefaultEntity
  ELSE tracked[chat]

(* an allow-list check that no kind fails                                  *)
IsAllowedAlways(mediaType, allowedTypes) == TRUE

(* handlers.go lines 475-485                                               *)
IsAllowedMediaType(mediaType, allowedTypes) ==
  IF allowedTypes = {} THEN TRUE ELSE mediaType \in allowedTypes

(* a check that lets a failed lookup through                               *)
StopsUntrackedOnly(chat, ent) == IsGroup(chat) /\ ~ent.err /\ ~ent.isTracked

(* lines 182-188: if err != nil || !tracked.IsTracked { if IsGroup return } *)
StopsUntrackedGroup(chat, ent) == IsGroup(chat) /\ (ent.err \/ ~ent.isTracked)

(* a check that gives audio no exemption                                   *)
DroppedWithoutExemption(kind, ent) == ~IsAllowedMediaType(kind, ent.allowed)

(* line 207: !isAllowedMediaType(...) && mediaType != "audio"              *)
DroppedByAllowList(kind, ent) ==
  ~IsAllowedMediaType(kind, ent.allowed) /\ kind # "audio"

(* a save that does not look at the chat                                   *)
ShouldSaveAnyChat(chat, kind) == kind # "audio"

(* lines 233-234: if mediaType != "audio" { if msg.Info.IsGroup { save } } *)
ShouldSave(chat, kind) == kind # "audio" /\ IsGroup(chat)

(* db.go lines 263-293: INSERT ... ON CONFLICT (device_id, message_id) DO  *)
(* NOTHING RETURNING id, then Scan: a conflict returns no row, and Scan    *)
(* answers sql.ErrNoRows                                                   *)
Stored(d, id) == \E m \in messages : m.dev = d /\ m.id = id
SaveMessageResult(row) == IF Stored(row.dev, row.id) THEN "ErrNoRows" ELSE "nil"
SaveMessage(row) ==
  messages' = IF Stored(row.dev, row.id) THEN messages ELSE messages \cup {row}

NoMsg == [chat |-> "none", kind |-> "none"]
NoDispatch ==
  [pc |-> "none", cl |-> NoClient, id |-> 0, n |-> 0, out |-> "none", res |-> "none",
   dup |-> FALSE, saves |-> 0, fwd |-> 0, fwdAudio |-> 0, dls |-> 0, tcs |-> 0,
   b64 |-> FALSE, errs |-> 0, cerrs |-> 0, ent |-> NoEntity]

(* the next subscription's run of the handler, or the end of the dispatch  *)
NextInvocation(m) ==
  IF m.n < HandlerRegistrations
  THEN [m EXCEPT !.pc = "get", !.n = @ + 1]
  ELSE [m EXCEPT !.pc = "done"]

(* the session of Client c receives message id of kind k in chat ch and    *)
(* emits events.Message; a message that comes again comes as it was        *)
LibMessage(c, id, ch, k) ==
  /\ msg.pc \in {"none", "done"}
  /\ nDeliv < MaxDeliveries
  /\ clients[c].dev \in Devices
  /\ clients[c].sock = "open"
  /\ inbox[id] \in {NoMsg, [chat |-> ch, kind |-> k]}
  /\ inbox' = [inbox EXCEPT ![id] = [chat |-> ch, kind |-> k]]
  /\ msg' = [NoDispatch EXCEPT !.pc = "get", !.cl = c, !.id = id, !.n = 1]
  /\ nDeliv' = nDeliv + 1
  /\ UNCHANGED <<send, hookVars, dbVars, clients, registry, mutex, nsWired, boot, task, conn, sem, hc, apiVars,
                 alerts, evVars, qrVars, histVars, tracked, messages, notifVars>>

(* handlers.go lines 164-168: h.Manager.GetClient(deviceID); an error ends *)
(* this run of the handler                                                 *)
MessageGetClient ==
  /\ msg.pc = "get"
  /\ GetClient(MsgCaller, clients[msg.cl].dev)
  /\ msg' = CASE GetClientOutcome(clients[msg.cl].dev) = "not_eligible" ->
                   NextInvocation([msg EXCEPT !.out = "no_client", !.cerrs = @ + 1])
              [] GetClientOutcome(clients[msg.cl].dev) = "lost" -> [msg EXCEPT !.pc = "get2"]
              [] OTHER -> [msg EXCEPT !.pc = "handle"]
  /\ UNCHANGED <<send, hookVars, dbVars, nsWired, boot, task, conn, sem, hc, apiVars, alerts, evVars, qrVars,
                 tracked, inbox, messages, nDeliv, notifVars>>

(* GetClient, continued: the stored session was lost                       *)
MessageGetClient2 ==
  /\ msg.pc = "get2"
  /\ GetClientLost(MsgCaller, clients[msg.cl].dev, devices[clients[msg.cl].dev].status)
  /\ msg' = [msg EXCEPT !.pc = "handle"]
  /\ UNCHANGED <<send, hookVars, sessions, nsWired, boot, task, conn, sem, hc, apiVars, alerts, evVars, qrVars,
                 tracked, inbox, messages, nDeliv, notifVars>>

(* handlers.go lines 182-245, one run: the tracking lookup (failed: the    *)
(* query fails), the media step (dl: the download succeeds; tc: the        *)
(* transcoding succeeds), the save and the forward.  A failed lookup       *)
(* leaves tracked nil: reading tracked.TrackMedia at line 206 panics, and  *)
(* the dispatch of the event ends there.                                   *)
HandleMessage(failed, dl, tc) ==
  /\ msg.pc = "handle"
  /\ LET d == clients[msg.cl].dev
         chat == inbox[msg.id].chat
         kind == inbox[msg.id].kind
         ent == GetTrackedEntity(chat, failed)
         stops == StopsUntrackedGroup(chat, ent)
         panics == ~stops /\ kind # "text" /\ ent.err
         media == ~stops /\ ~panics /\ kind # "text" /\ ent.trackMedia
         dropped == media /\ DroppedByAllowList(kind, ent)
         transcodes == media /\ ~dropped /\ kind = "audio"
         downloads == media /\ ~dropped /\ kind # "audio"
         reaches == ~stops /\ ~panics /\ ~dropped
         saves == reaches /\ ShouldSave(chat, kind)
         row == [dev |-> d, id |-> msg.id, group |-> IsGroup(chat),
                 media |-> IF downloads /\ dl THEN kind ELSE ""]
         m1 == [msg EXCEPT
                  !.ent = ent,
                  !.errs = IF failed THEN @ + 1 ELSE @,
                  !.out = CASE stops -> "stopped" [] panics -> "panic"
                            [] dropped -> "dropped" [] OTHER -> "forwarded",
                  !.dls = IF downloads THEN @ + 1 ELSE @,
                  !.tcs = IF transcodes THEN @ + 1 ELSE @,
                  !.b64 = transcodes /\ tc,
                  !.saves = IF saves THEN @ + 1 ELSE @,
                  !.dup = saves /\ Stored(d, msg.id),
                  !.res = IF saves THEN SaveMessageResult(row) ELSE "none",
                  !.fwd = IF reaches /\ kind # "audio" THEN @ + 1 ELSE @,
                  !.fwdAudio = IF reaches /\ kind = "audio" THEN @ + 1 ELSE @]
     IN /\ (downloads \/ dl)
        /\ (transcodes \/ tc)
        /\ IF saves THEN SaveMessage(row) ELSE UNCHANGED messages
        /\ msg' = IF panics THEN [m1 EXCEPT !.pc = "done"] ELSE NextInvocation(m1)
  /\ UNCHANGED <<send, hookVars, dbVars, clients, registry, mutex, nsWired, boot, task, conn, sem, hc, apiVars,
                 alerts, evVars, qrVars, histVars, tracked, inbox, nDeliv, notifVars>>

(***************************************************************************)
(* The notification service: the cooldown gate shouldNotifyAdvanced, the   *)
(* normal send SendDeviceNotification and the forced send                  *)
(* SendDeviceNotificationForced.  main builds the service with the         *)
(* database, so ns.db is never nil.  Writes to the log succeed; the        *)
(* channels are attempted, whatever they answer.                           *)
(***************************************************************************)
NotifDevices == {1, 2}
NotifTypes ==
  {"client_outdated", "device_requires_reauth", "device_connection_error",
   "webhook_delivery_failure", "device_disconnected", "other"}
NotificationLevels == {"info", "warning", "error", "critical"}

(* lines 621-651: TypeSpecific, else CriticalMinutes, else DefaultMinutes  *)
Cooldown(type, level) ==
  CASE type = "client_outdated" -> 10
    [] type = "device_requires_reauth" -> 30
    [] type = "device_connection_error" -> 15
    [] type = "webhook_delivery_failure" -> 60
    [] type = "device_disconnected" -> 45
    [] OTHER -> IF level = "critical" THEN 10 ELSE 30

(* rows of notification_logs WHERE device_id = $1 AND type = $2            *)
LogRows(d, type) == {r \in notifLog : r.dev = d /\ r.type = type}

(* ORDER BY created_at DESC LIMIT 1                                        *)
LastNotificationTime(d, type) ==
  CHOOSE t \in {r.at : r \in LogRows(d, type)} : \A r \in LogRows(d, type) : r.at <= t

(* a comparison that lets the boundary minute wait                         *)
CooldownOverStrict(elapsed, minutes) == elapsed > minutes

(* line 673: timeSinceLastNotification >= cooldownDuration                 *)
CooldownOver(elapsed, minutes) == elapsed >= minutes

(* lines 614-692: shouldNotifyAdvanced; failed: the query fails with an    *)
(* error other than sql.ErrNoRows, and the notification is let through     *)
ShouldNotifyAdvanced(d, type, level, failed) ==
  IF failed THEN TRUE
  ELSE IF LogRows(d, type) = {} THEN TRUE
  ELSE CooldownOver(now - LastNotificationTime(d, type), Cooldown(type, level))

(* lines 573-603 and db.go SaveNotificationLog: INSERT, created_at =       *)
(* notification.Timestamp                                                  *)
SaveNotificationLog(d, type) ==
  notifLog' = notifLog \cup
    {[id |-> Cardinality(notifLog) + 1, dev |-> d, type |-> type, at |-> now]}

(* lines 115-119: email for the levels critical and error                  *)
EmailLevels == {"critical", "error"}

(* a forced send that mails like a normal one                              *)
ForcedChannelsByLevel(level) ==
  {"upstream"} \cup (IF webhookURL THEN {"webhook"} ELSE {})
               \cup (IF level \in EmailLevels THEN {"email"} ELSE {})

(* lines 102-119: the channels of a normal send                            *)
NormalChannels(level) ==
  {"upstream"} \cup (IF webhookURL THEN {"webhook"} ELSE {})
               \cup (IF level \in EmailLevels THEN {"email"} ELSE {})

(* lines 707-725: the channels of a forced send                            *)
ForcedChannels(level) ==
  {"upstream"} \cup (IF webhookURL THEN {"webhook"} ELSE {}) \cup {"email"}

NoCall ==
  [pc |-> "none", dev |-> 0, type |-> "none", level |-> "none", forced |-> FALSE,
   failed |-> FALSE, allowed |-> FALSE, effects |-> {}, res |-> "none",
   afterNormal |-> FALSE, wouldAllow |-> FALSE]

(* a *DeviceNotification as its caller built it                            *)
Call(d, type, level) == [NoCall EXCEPT !.dev = d, !.type = type, !.level = level]

(* the clock advances; the calls of the instant before are history         *)
Tick ==
  /\ now + TickMinutes <= MaxTime
  /\ now' = now + TickMinutes
  /\ ncall' = IF ncall.pc = "gated" THEN ncall ELSE NoCall
  /\ UNCHANGED <<send, hookVars, dbVars, clients, registry, mutex, nsWired, boot, task, conn, sem, hc, apiVars,
                 alerts, evVars, qrVars, histVars, msgVars, notifLog, webhookURL, nSends>>

(* a send that writes its log row before it asks the gate                  *)
SendDeviceNotificationLogFirst(d, type, level, failed) ==
  /\ ncall.pc # "gated"
  /\ nSends < MaxSends
  /\ nSends' = nSends + 1
  /\ SaveNotificationLog(d, type)
  /\ ncall' = [Call(d, type, level) EXCEPT
                 !.pc = "done", !.failed = failed, !.res = "nil",
                 !.allowed = ShouldNotifyAdvanced(d, type, level, failed)]
  /\ UNCHANGED <<send, hookVars, dbVars, clients, registry, mutex, nsWired, boot, task, conn, sem, hc, apiVars,
                 alerts, evVars, qrVars, histVars, msgVars, now, webhookURL>>

(* lines 83-90: SendDeviceNotification, step 1: the gate; a denial returns *)
(* nil at once                                                             *)
SendDeviceNotificationGate(d, type, level, failed) ==
  /\ ncall.pc # "gated"
  /\ nSends < MaxSends
  /\ nSends' = nSends + 1
  /\ ncall' = IF ShouldNotifyAdvanced(d, type, level, failed)
              THEN [Call(d, type, level) EXCEPT
                      !.pc = "gated", !.failed = failed, !.allowed = TRUE]
              ELSE [Call(d, type, level) EXCEPT
                      !.pc = "done", !.failed = failed, !.allowed = FALSE, !.res = "nil"]
  /\ UNCHANGED <<send, hookVars, dbVars, clients, registry, mutex, nsWired, boot, task, conn, sem, hc, apiVars,
                 alerts, evVars, qrVars, histVars, msgVars, now, notifLog, webhookURL>>

(* lines 93-122: steps 2-5: the log row, the upstream platform, the        *)
(* webhook, the email                                                      *)
SendDeviceNotificationDeliver ==
  /\ ncall.pc = "gated"
  /\ SaveNotificationLog(ncall.dev, ncall.type)
  /\ ncall' = [ncall EXCEPT !.pc = "done", !.res = "nil",
                            !.effects = {"log"} \cup NormalChannels(ncall.level)]
  /\ UNCHANGED <<send, hookVars, dbVars, clients, registry, mutex, nsWired, boot, task, conn, sem, hc, apiVars,
                 alerts, evVars, qrVars, histVars, msgVars, now, webhookURL, nSends>>

(* lines 695-728: SendDeviceNotificationForced                             *)
SendDeviceNotificationForced(d, type, level) ==
  /\ ncall.pc # "gated"
  /\ nSends < MaxSends
  /\ nSends' = nSends + 1
  /\ SaveNotificationLog(d, type)
  /\ ncall' = [Call(d, type, level) EXCEPT
                 !.pc = "done", !.forced = TRUE, !.res = "nil",
                 !.effects = {"log"} \cup ForcedChannels(level),
                 !.afterNormal = /\ ncall.pc = "done" /\ ~ncall.forced /\ ncall.allowed
                                 /\ ncall.dev = d /\ ncall.type = type,
                 !.wouldAllow = ShouldNotifyAdvanced(d, type, level, FALSE)]
  /\ UNCHANGED <<send, hookVars, dbVars, clients, registry, mutex, nsWired, boot, task, conn, sem, hc, apiVars,
                 alerts, evVars, qrVars, histVars, msgVars, now, webhookURL>>

(***************************************************************************)
(* Outbound webhooks: EventHandler.sendToWebhook, the delivery log, the    *)
(* retry rows of scheduleWebhookRetry and ProcessPendingWebhooks.          *)
(***************************************************************************)
NoWebhook == 0       \* var webhookID int64 = 0

(* the id of the one row of webhook_configs (a SERIAL column)              *)
FirstConfig == NoWebhook + 1

maxAttempts == 5     \* maxAttempts := 5

(* what the POST came to: no response, or the class of its status code;    *)
(* "unbuilt": the body or the request could not be built                   *)
PostOutcomes == {"transport", "5xx", "4xx", "ok", "unbuilt"}

(* a retry is asked for after every failure, the permanent ones included   *)
RetriedAlways(outcome) == outcome \in {"transport", "5xx", "4xx"}

(* lines 791 and 805-807: go h.scheduleWebhookRetry(...)                   *)
Retried(outcome) == outcome \in {"transport", "5xx"}

(* a webhook_deliveries row; result stands for response_code and          *)
(* error_message; cfg, posts and seen are history: the configuration the   *)
(* event was sent under, the POSTs made for the payload, the times         *)
(* ProcessPendingWebhooks picked the row up (counted up to MaxPasses)      *)
Delivery(wid, status, result, attempts, cfg, posts) ==
  [wid |-> wid, status |-> status, result |-> result, attempts |-> attempts, cfg |-> cfg,
   posts |-> posts, seen |-> 0]

(* LogWebhookDelivery: INSERT ... RETURNING id                             *)
LogWebhookDelivery(rows, row) == Append(rows, row)

(* logWebhookDeliveryFailure / logWebhookDeliverySuccess: a row of its own *)
(* for the attempt just made, webhook_id 0, attempt_count 1                *)
AttemptRow(outcome, posts) ==
  Delivery(NoWebhook, IF outcome = "ok" THEN "success" ELSE "failed", outcome, 1, FirstConfig,
           posts)

(* POST /webhook/config -> Manager.ConfigureWebhook: the handler's copy    *)
(* and the stored row take the requested flag                              *)
ConfigureWebhook(enabled) ==
  /\ hookEnabled # enabled
  /\ hookEnabled' = enabled
  /\ UNCHANGED <<coreVars, msgVars, notifVars, send, lateVars, deliveries, retryq, nHooks>>

(* sendToWebhook for one device event: nothing without an enabled          *)
(* configuration; else the POST is made and its outcome logged             *)
SendToWebhook(outcome) ==
  /\ nHooks < MaxHookEvents
  /\ nHooks' = nHooks + 1
  /\ IF ~hookEnabled
     THEN UNCHANGED <<deliveries, retryq>>
     ELSE /\ deliveries' =
               LogWebhookDelivery(deliveries, AttemptRow(outcome, IF outcome = "unbuilt" THEN 0 ELSE 1))
          /\ retryq' = IF Retried(outcome) THEN retryq + 1 ELSE retryq
  /\ UNCHANGED <<coreVars, msgVars, notifVars, send, lateVars, hookEnabled>>

(* scheduleWebhookRetry: attemptCount := 1, so the limit is never met; a   *)
(* new row, pending, webhook_id 0, due in 5 seconds                        *)
ScheduleWebhookRetry ==
  /\ retryq > 0
  /\ retryq' = retryq - 1
  /\ deliveries' =
       LogWebhookDelivery(deliveries, Delivery(NoWebhook, "pending", "scheduled", 1, FirstConfig, 1))
  /\ UNCHANGED <<coreVars, msgVars, notifVars, send, lateVars, hookEnabled, nHooks>>

(* GetPendingWebhookDeliveries: pending or retrying, next_retry_at passed  *)
Pending(row) == row.status \in {"pending", "retrying"}

(* GetWebhookConfigByID: nil for an id no row carries                      *)
ConfigFound(wid) == wid = FirstConfig

(* UpdateWebhookDeliveryStatus after a failed re-POST: retrying with a new *)
(* next_retry_at, or failed once the incremented count exceeds the limit   *)
AfterFailure(row) ==
  [row EXCEPT !.attempts = @ + 1, !.result = "failure",
              !.status = IF row.attempts + 1 > maxAttempts THEN "failed" ELSE "retrying"]

(* one iteration of ProcessPendingWebhooks, for the due delivery id        *)
ProcessPendingWebhooks(id, outcome) ==
  LET row == deliveries[id]
      picked == [row EXCEPT !.seen = IF @ < MaxPasses THEN @ + 1 ELSE @]
      posted == [picked EXCEPT !.posts = @ + 1] IN
  /\ id \in DOMAIN deliveries
  /\ Pending(row)
  /\ deliveries' = [deliveries EXCEPT ![id] =
       IF ~ConfigFound(row.wid) THEN picked
       ELSE IF ~hookEnabled THEN [picked EXCEPT !.status = "cancelled", !.result = "disabled"]
       ELSE CASE outcome = "unbuilt" ->
                   [picked EXCEPT !.status = "failed", !.result = outcome, !.attempts = @ + 1]
              [] outcome \in {"transport", "5xx"} -> AfterFailure(posted)
              [] outcome = "4xx" ->
                   [posted EXCEPT !.status = "failed", !.result = outcome, !.attempts = @ + 1]
              [] OTHER ->
                   [posted EXCEPT !.status = "success", !.result = outcome, !.attempts = @ + 1]]
  /\ UNCHANGED <<coreVars, msgVars, notifVars, send, lateVars, hookEnabled, retryq, nHooks>>

(***************************************************************************)
(* The retry queue: webhook_deliveries with created_at and next_retry_at,  *)
(* and the query GetPendingWebhookDeliveries over it.                      *)
(***************************************************************************)
PendingLimit == 100   \* LIMIT 100
NullTime == 0         \* next_retry_at IS NULL

DeliveryStatus == {"pending", "retrying", "success", "failed", "cancelled"}

(* a burst of failing events leaves one retry more than a query returns    *)
BurstSize == PendingLimit + 1

EmptyOutbox == [rows |-> <<>>, clock |-> 1, ticks |-> 0, inserts |-> 0, res |-> <<>>, at |-> 0]

(* a result belongs to the instant of its query                            *)
Stale(box) == [box EXCEPT !.res = <<>>, !.at = 0]

(* a row as the query sees it; its id is its index in outbox.rows          *)
QueuedRow(status, createdAt, nextRetryAt) ==
  [status |-> status, created |-> createdAt, next |-> nextRetryAt]

(* INSERT: n rows, one statement each, CURRENT_TIMESTAMP advancing between *)
(* them; next_retry_at is NULL, or delay clock units after created_at      *)
RowsInserted(status, n, delayed) ==
  [k \in 1 .. n |->
     QueuedRow(status, outbox.clock + k - 1,
               IF delayed THEN outbox.clock + k - 1 + RetryDelay ELSE NullTime)]

(* a single delivery logged, in any status                                 *)
InsertDelivery(status, delayed) ==
  /\ outbox.inserts < MaxInserts
  /\ outbox' = [Stale(outbox) EXCEPT !.rows = @ \o RowsInserted(status, 1, delayed),
                                     !.clock = @ + 1, !.inserts = @ + 1]
  /\ UNCHANGED <<coreVars, msgVars, notifVars, send, deliveries, hookEnabled, retryq, nHooks,
                 raceVars, lockVars>>

(* a burst of failing events: scheduleWebhookRetry logs BurstSize pending  *)
(* rows, each due RetryDelay after it was created                          *)
InsertRetryBurst ==
  /\ Len(outbox.rows) < PendingLimit
  /\ outbox' = [Stale(outbox) EXCEPT !.rows = @ \o RowsInserted("pending", BurstSize, TRUE),
                                     !.clock = @ + BurstSize]
  /\ UNCHANGED <<coreVars, msgVars, notifVars, send, deliveries, hookEnabled, retryq, nHooks,
                 raceVars, lockVars>>

(* time passes                                                             *)
ClockTick ==
  /\ outbox.ticks < MaxTicks
  /\ outbox' = [Stale(outbox) EXCEPT !.clock = @ + 1, !.ticks = @ + 1]
  /\ UNCHANGED <<coreVars, msgVars, notifVars, send, deliveries, hookEnabled, retryq, nHooks,
                 raceVars, lockVars>>

(* WHERE (status = 'pending' OR status = 'retrying')                       *)
(*   AND (next_retry_at IS NULL OR next_retry_at <= CURRENT_TIMESTAMP)     *)
DueAt(row, t) == Pending(row) /\ (row.next = NullTime \/ row.next <= t)

(* ORDER BY created_at DESC                                                *)
CreatedDesc(a, b) == a.created > b.created

(* ORDER BY created_at ASC                                                 *)
CreatedAsc(a, b) == a.created < b.created

(* LIMIT n                                                                 *)
Limit(s, n) == SubSeq(s, 1, IF Len(s) < n THEN Len(s) ELSE n)

(* the ids of the rows the query returns at time t, in the order returned  *)
PendingWebhookDeliveries(rows, t) ==
  LET due(id) == DueAt(rows[id], t)
      before(a, b) == CreatedAsc(rows[a], rows[b]) IN
  Limit(SortSeq(SelectSeq([id \in DOMAIN rows |-> id], due), before), PendingLimit)

(* db.GetPendingWebhookDeliveries()                                        *)
GetPendingWebhookDeliveries ==
  /\ outbox' = [outbox EXCEPT !.res = PendingWebhookDeliveries(outbox.rows, outbox.clock),
                              !.at = outbox.clock]
  /\ UNCHANGED <<coreVars, msgVars, notifVars, send, deliveries, hookEnabled, retryq, nHooks,
                 raceVars, lockVars>>

(***************************************************************************)
(* SendDeviceNotification called by several goroutines at once: the        *)
(* service holds no lock, so the gate of one call and the log row of       *)
(* another interleave.  The lookups succeed.                               *)
(***************************************************************************)
Notifiers == 1 .. NumNotifiers

(* lines 83-90, by caller k: the gate                                      *)
NotifierGate(k, d, type, level) ==
  /\ ncalls[k].pc # "gated"
  /\ nSends < MaxSends
  /\ nSends' = nSends + 1
  /\ ncalls' = [ncalls EXCEPT ![k] =
       IF ShouldNotifyAdvanced(d, type, level, FALSE)
       THEN [Call(d, type, level) EXCEPT !.pc = "gated", !.allowed = TRUE]
       ELSE [Call(d, type, level) EXCEPT !.pc = "done", !.allowed = FALSE, !.res = "nil"]]
  /\ UNCHANGED <<coreVars, msgVars, send, deliveries, hookEnabled, retryq, nHooks, outbox, lockVars,
                 now, notifLog, ncall, webhookURL>>

(* lines 93-122, by caller k: the log row and the channels                 *)
NotifierDeliver(k) ==
  /\ ncalls[k].pc = "gated"
  /\ SaveNotificationLog(ncalls[k].dev, ncalls[k].type)
  /\ ncalls' = [ncalls EXCEPT ![k].pc = "done", ![k].res = "nil",
                              ![k].effects = {"log"} \cup NormalChannels(ncalls[k].level)]
  /\ UNCHANGED <<coreVars, msgVars, send, deliveries, hookEnabled, retryq, nHooks, outbox, lockVars,
                 now, ncall, webhookURL, nSends>>

(***************************************************************************)
(* The locks: Manager.mutex and the mutex of every Client, both plain      *)
(* sync.Mutex.  Each operation is the sequence of Lock and Unlock calls    *)
(* it makes, in program order, on the Client it works on; what happens     *)
(* between two calls (database statements, map lookups) returns.           *)
(***************************************************************************)
Goroutines == 1 .. NumGoroutines
LockClients == 1 .. NumLockClients
ManagerMutex == NumLockClients + 1     \* m.mutex; lock c is Client c's c.mutex
Locks == LockClients \cup {ManagerMutex}

Lock(l) == [do |-> "Lock", on |-> l]
Unlock(l) == [do |-> "Unlock", on |-> l]

Idle == <<>>

(* c.mutex.Lock(); ...; c.mutex.Unlock(): IsConnected, GetQRChannel,       *)
(* AddEventHandler, the flag of Connect and Disconnect, handleConnected,   *)
(* handleDisconnected, handleLoggedOut, handleQR (whose send on the QR     *)
(* channel has a default case and does not wait)                           *)
ClientSection(c) == <<Lock(c), Unlock(c)>>

(* manager.go lines 120-128: the registry holds the Client                 *)
GetClientCached == <<Lock(ManagerMutex), Unlock(ManagerMutex)>>

(* lines 120-207: the Client is built; client.AddEventHandler under the    *)
(* manager lock                                                            *)
GetClientCreated(c) == <<Lock(ManagerMutex)>> \o ClientSection(c) \o <<Unlock(ManagerMutex)>>

GetClientLocks(c) == {GetClientCached, GetClientCreated(c)}

(* lines 373-385: client.IsConnected() under the manager lock; then        *)
(* GetClient, and Connect() with its flag section                          *)
ConnectClientSafelyLocks(c) ==
  {GetClientCreated(c),
   GetClientCreated(c) \o GetClientCreated(c) \o ClientSection(c),
   GetClientCached \o GetClientCreated(c) \o ClientSection(c),
   GetClientCached \o GetClientCreated(c)}

(* lines 49-79: client.IsConnected() of every registered Client under the  *)
(* manager lock                                                            *)
RECURSIVE Sections(_)
Sections(cs) ==
  IF cs = {} THEN <<>>
  ELSE LET c == CHOOSE x \in cs : \A y \in cs : x <= y IN
       ClientSection(c) \o Sections(cs \ {c})

GetDetailedStatusLocks ==
  {<<Lock(ManagerMutex)>> \o Sections(cs) \o <<Unlock(ManagerMutex)>> : cs \in SUBSET LockClients}

(* lines 222-234: the lookup under the manager lock, Disconnect after it   *)
DisconnectClientLocks(c) == {GetClientCached, GetClientCached \o ClientSection(c)}

(* a dispatch that runs the subscribed handlers inside the Client's lock   *)
HandlersUnderClientLock(c) == {<<Lock(c)>> \o GetClientCached \o GetClientCached \o <<Unlock(c)>>}

(* part_006 lines 161-181: the subscribed handlers run first, with no lock *)
(* held; for a Message each of them calls Manager.GetClient (handlers.go   *)
(* line 163)                                                               *)
HandlersOfMessage(c) ==
  {GetClientCached \o GetClientCached,
   GetClientCreated(c) \o GetClientCached}

(* then the Client's own handler, for Connected, Disconnected, LoggedOut   *)
(* and QR                                                                  *)
HandleEventsLocks(c) == HandlersOfMessage(c) \cup {ClientSection(c)}

(* part_003 lines 271-323: GetClient, IsConnected, GetQRChannel,           *)
(* Connect(), GetQRChannel again, go Connect()                             *)
GetQRCodeLocks(c) ==
  {g \o ClientSection(c) : g \in GetClientLocks(c)}
    \cup {g \o ClientSection(c) \o ClientSection(c) \o ClientSection(c) \o ClientSection(c)
            \o ClientSection(c) : g \in GetClientLocks(c)}

Programs ==
  UNION {GetClientLocks(c) \cup ConnectClientSafelyLocks(c) \cup DisconnectClientLocks(c)
           \cup HandleEventsLocks(c) \cup GetQRCodeLocks(c) : c \in LockClients}
    \cup GetDetailedStatusLocks

lockRest ==
  <<dbVars, clients, registry, mutex, nsWired, boot, task, conn, sem, hc, apiVars, alerts,
    evVars, qrVars, histVars, msgVars, notifVars, send, deliveries, hookEnabled, retryq,
    nHooks, outbox, raceVars>>

(* the call goroutine g makes next; running[g] is what is left of its      *)
(* operation                                                               *)
NextCall(g) == Head(running[g])

Requests(g, l) == running[g] # Idle /\ NextCall(g) = Lock(l)

(* goroutine g starts an operation                                         *)
Go(g, prog) ==
  /\ running[g] = Idle
  /\ running' = [running EXCEPT ![g] = prog]
  /\ UNCHANGED <<held, lockRest>>

(* sync.Mutex.Lock returns                                                 *)
Acquire(g) ==
  /\ running[g] # Idle
  /\ NextCall(g).do = "Lock"
  /\ held[NextCall(g).on] = NoTask
  /\ held' = [held EXCEPT ![NextCall(g).on] = g]
  /\ running' = [running EXCEPT ![g] = Tail(@)]
  /\ UNCHANGED lockRest

(* sync.Mutex.Unlock                                                       *)
Release(g) ==
  /\ running[g] # Idle
  /\ NextCall(g).do = "Unlock"
  /\ held' = [held EXCEPT ![NextCall(g).on] = NoTask]
  /\ running' = [running EXCEPT ![g] = Tail(@)]
  /\ UNCHANGED lockRest

(***************************************************************************)
(* Initial states.  The registry is empty when the process starts; the     *)
(* rows are those a previous run can have left behind: a row that carries  *)
(* an identifier has been connected before.                                *)
(***************************************************************************)
InitManager ==
  /\ clients = [c \in Clients |-> FreeClient]
  /\ registry = [d \in Devices |-> NoClient]
  /\ mutex = NoTask
  /\ task = [t \in Tasks |-> IdleTask]
  /\ conn = [k \in Callers |-> IdleConn]
  /\ sem = 0
  /\ hc = IdleHC
  /\ pendingDisc = {}
  /\ nUpdates = 0
  /\ alerts = NoAlert
  /\ ev = [c \in Clients |-> NoEvent]
  /\ nEvents = 0
  /\ gor = {}
  /\ qr = [r \in QRRequests |-> IdleQR]
  /\ chans = [ch \in Channels |-> ClosedChan]
  /\ nCodes = 0
  /\ gcReturned = [d \in Devices |-> {}]
  /\ gcCreated = [d \in Devices |-> {}]
  /\ gcCalls = [d \in Devices |-> 0]
  /\ send = IdleSend

(* no message has come                                                     *)
InitNoMessages ==
  /\ tracked = [ch \in Chats |-> NoEntity]
  /\ inbox = [id \in MsgIds |-> NoMsg]
  /\ messages = {}
  /\ msg = NoDispatch
  /\ nDeliv = 0

(* no notification has been sent                                           *)
InitNoNotifications ==
  /\ now = 0
  /\ notifLog = {}
  /\ ncall = NoCall
  /\ webhookURL = FALSE
  /\ nSends = 0

(* no webhook is configured, no delivery has been recorded                 *)
InitNoWebhooks ==
  /\ deliveries = <<>>
  /\ hookEnabled = FALSE
  /\ retryq = 0
  /\ nHooks = 0
  /\ outbox = EmptyOutbox
  /\ ncalls = [k \in Notifiers |-> NoCall]
  /\ held = [l \in Locks |-> NoTask]
  /\ running = [g \in Goroutines |-> Idle]

InitIdle ==
  InitManager /\ nsWired = TRUE /\ InitNoMessages /\ InitNoNotifications /\ InitNoWebhooks

FreshRow == DeviceRow(DeviceStatusPending, NoJID, FALSE)

InitRows(rows) ==
  /\ devices = rows
  /\ everConn = [d \in Devices |-> rows[d].jid # NoJID]

(* the server is up; device 1 has been paired before, its session may be   *)
(* gone                                                                    *)
Init ==
  /\ InitIdle
  /\ boot = "serving"
  /\ \E st \in DeviceStatus, r \in BOOLEAN :
       InitRows([d \in Devices |-> IF d = 1 THEN DeviceRow(st, 1, r) ELSE FreshRow])
  /\ sessions \in SUBSET {1}

(* reconnect requests, their Connect() calls and the health check          *)
Next ==
  \/ \E t \in ConnTasks, d \in {1} : ReconnectDevice(t, d)
  \/ \E t \in ConnTasks : ConnectClientSafelyCheck(t)
  \/ \E t \in ConnTasks : ConnectClientSafelyGet(t)
  \/ \E t \in ConnTasks : ConnectClientSafelyGet2(t)
  \/ \E t \in ConnTasks : ConnectClientSafelyGetFailed(t)
  \/ \E t \in ConnTasks : ConnectClientSafelyResult(t)
  \/ \E t \in ConnTasks : ConnectClientSafelyTimeout(t)
  \/ \E t \in ConnTasks : ConnectDial(t)
  \/ \E t \in ConnTasks : ConnectDialed(t)
  \/ \E t \in ConnTasks : ConnectRead(t)
  \/ \E t \in ConnTasks : ConnectWrite(t)
  \/ \E t \in ConnTasks : ConnectFlag(t)
  \/ HealthCheckStart
  \/ HealthCheckScan
  \/ HealthCheckRead
  \/ HealthCheckWrite

Spec == Init /\ [][Next]_vars

(***************************************************************************)
(* Startup: the process boots with three paired devices; the session of    *)
(* device 3 is gone.  An operator disables devices while the tasks of      *)
(* ConnectAllApproved run.                                                 *)
(***************************************************************************)
InitBulk ==
  /\ InitIdle
  /\ boot = "clean"
  /\ \E row3 \in {DeviceRow(DeviceStatusConnected, 3, FALSE),
                   DeviceRow(DeviceStatusApproved, 3, TRUE),
                   DeviceRow(DeviceStatusDisabled, 3, FALSE)} :
       InitRows([d \in Devices |->
                   CASE d = 1 -> DeviceRow(DeviceStatusConnected, 1, FALSE)
                     [] d = 2 -> DeviceRow(DeviceStatusApproved, 2, FALSE)
                     [] OTHER -> row3])
  /\ sessions = {1, 2}

NextBulk ==
  \/ CleanCorruptedSessions
  \/ ConnectAllApproved
  \/ \E t \in Tasks : BulkAcquire(t)
  \/ \E t \in Tasks : ConnectClientSafelyCheck(t)
  \/ \E t \in Tasks : ConnectClientSafelyGet(t)
  \/ \E t \in Tasks : ConnectClientSafelyGet2(t)
  \/ \E t \in Tasks : ConnectClientSafelyGetFailed(t)
  \/ \E t \in Tasks : ConnectClientSafelyResult(t)
  \/ \E t \in Tasks : ConnectClientSafelyTimeout(t)
  \/ \E t \in Tasks : ConnectDial(t)
  \/ \E t \in Tasks : ConnectDialed(t)
  \/ \E t \in Tasks : ConnectRead(t)
  \/ \E t \in Tasks : ConnectWrite(t)
  \/ \E t \in Tasks : ConnectFlag(t)
  \/ \E t \in Tasks : BulkRelease(t)
  \/ \E d \in Devices : APIUpdateDeviceStatus(d, DeviceStatusDisabled)
  \/ \E d \in Devices : DisconnectClient(d)

SpecBulk == InitBulk /\ [][NextBulk]_vars

(***************************************************************************)
(* Events: device 1 is paired; it is reconnected on request and its        *)
(* session emits Connected, Disconnected and LoggedOut.                    *)
(***************************************************************************)
InitEvents ==
  /\ InitIdle
  /\ boot = "serving"
  /\ \E st \in {DeviceStatusConnected, DeviceStatusApproved} :
       InitRows([d \in Devices |-> IF d = 1 THEN DeviceRow(st, 1, FALSE) ELSE FreshRow])
  /\ sessions = {1}

NextEvents ==
  \/ \E t \in ConnTasks, d \in {1} : ReconnectDevice(t, d)
  \/ \E t \in ConnTasks : ConnectClientSafelyCheck(t)
  \/ \E t \in ConnTasks : ConnectClientSafelyGet(t)
  \/ \E t \in ConnTasks : ConnectClientSafelyResult(t)
  \/ \E t \in ConnTasks : ConnectDial(t)
  \/ \E t \in ConnTasks : ConnectDialed(t)
  \/ \E t \in ConnTasks : ConnectRead(t)
  \/ \E t \in ConnTasks : ConnectWrite(t)
  \/ \E t \in ConnTasks : ConnectFlag(t)
  \/ \E c \in Clients : LibConnected(c)
  \/ \E c \in Clients : LibDisconnected(c)
  \/ \E c \in Clients : LibLoggedOut(c)
  \/ \E c \in Clients : HandleEventRead(c)
  \/ \E c \in Clients : HandleEventWrite(c)
  \/ \E c \in Clients : ClientHandleConnected(c)
  \/ \E c \in Clients : ClientHandleDisconnected(c)
  \/ \E c \in Clients : ClientHandleLoggedOut(c)
  \/ \E g \in gor : GoConnectedRead(g)
  \/ \E g \in gor : GoConnectedWrite(g)
  \/ \E g \in gor : GoDisconnectedNotify(g)
  \/ \E g \in gor : GoLoggedOutReauth(g)
  \/ \E g \in gor : GoLoggedOutStatus(g)
  \/ \E g \in gor : GoLoggedOutNotify(g)

SpecEvents == InitEvents /\ [][NextEvents]_vars

(***************************************************************************)
(* Pairing: device 1 is approved; QR codes are requested for it, the phone *)
(* scans one, the paired session authenticates.                            *)
(***************************************************************************)
InitQR ==
  /\ InitIdle
  /\ boot = "serving"
  /\ \E j \in {NoJID, 1}, r \in BOOLEAN :
       InitRows([d \in Devices |->
                   IF d = 1 THEN DeviceRow(DeviceStatusApproved, j, r) ELSE FreshRow])
  /\ sessions = {}

NextQR ==
  \/ \E r \in QRRequests, d \in {1} : GetQRCodeRead(r, d)
  \/ \E r \in QRRequests : GetQRCodeDisconnect(r)
  \/ \E r \in QRRequests : GetQRCodeClear(r)
  \/ \E r \in QRRequests : GetQRCodeGet(r)
  \/ \E r \in QRRequests : GetQRCodeGet2(r)
  \/ \E r \in QRRequests : GetQRCodeIsConnected(r)
  \/ \E r \in QRRequests : GetQRCodeChannel1(r)
  \/ \E r \in QRRequests : GetQRCodeConnected(r)
  \/ \E r \in QRRequests : GetQRCodeChannel2(r)
  \/ \E r \in QRRequests : GetQRCodeSpawn(r)
  \/ \E r \in QRRequests : GetQRCodeTimeout(r)
  \/ \E r \in QRRequests : ConnectDial(QRCaller(r))
  \/ \E r \in QRRequests : ConnectDialed(QRCaller(r))
  \/ \E r \in QRRequests : ConnectRead(QRCaller(r))
  \/ \E r \in QRRequests : ConnectWrite(QRCaller(r))
  \/ \E r \in QRRequests : ConnectFlag(QRCaller(r))
  \/ \E c \in Clients : LibQR(c)
  \/ \E c \in Clients, j \in JIDs : PairSuccess(c, j)
  \/ \E c \in Clients : LibConnected(c)
  \/ \E c \in Clients : LibDisconnected(c)
  \/ \E c \in Clients : HandleEventRead(c)
  \/ \E c \in Clients : HandleEventWrite(c)
  \/ \E c \in Clients : ClientHandleQR(c)
  \/ \E c \in Clients : ClientHandleConnected(c)
  \/ \E c \in Clients : ClientHandleDisconnected(c)
  \/ \E g \in gor : GoConnectedRead(g)
  \/ \E g \in gor : GoConnectedWrite(g)
  \/ \E g \in gor : GoDisconnectedNotify(g)

SpecQR == InitQR /\ [][NextQR]_vars

(***************************************************************************)
(* Messages: device 1 is paired and its session is open; the Client that   *)
(* holds it may have left the registry, the row may have been disabled,    *)
(* the stored session may be gone.  The phone delivers messages of every   *)
(* kind in a group chat and in a direct chat.                              *)
(***************************************************************************)
InitMessages ==
  /\ clients = [c \in Clients |->
                  IF c = 1 THEN [ClientRec(1, 1) EXCEPT !.sock = "open", !.connected = TRUE]
                  ELSE FreeClient]
  /\ \E env \in {"cached", "evicted", "lost", "disabled"} :
       /\ registry = [d \in Devices |-> IF d = 1 /\ env = "cached" THEN 1 ELSE NoClient]
       /\ InitRows([d \in Devices |->
                      IF d = 1
                      THEN DeviceRow(IF env = "disabled" THEN DeviceStatusDisabled
                                     ELSE DeviceStatusConnected, 1, FALSE)
                      ELSE FreshRow])
       /\ sessions = IF env = "lost" THEN {} ELSE {1}
  /\ mutex = NoTask
  /\ nsWired = TRUE
  /\ boot = "serving"
  /\ task = [t \in Tasks |-> IdleTask]
  /\ conn = [k \in Callers |-> IdleConn]
  /\ sem = 0
  /\ hc = IdleHC
  /\ pendingDisc = {}
  /\ nUpdates = 0
  /\ alerts = NoAlert
  /\ ev = [c \in Clients |-> NoEvent]
  /\ nEvents = 0
  /\ gor = {}
  /\ qr = [r \in QRRequests |-> IdleQR]
  /\ chans = [ch \in Channels |-> ClosedChan]
  /\ nCodes = 0
  /\ gcReturned = [d \in Devices |-> {}]
  /\ gcCreated = [d \in Devices |-> {}]
  /\ gcCalls = [d \in Devices |-> 0]
  /\ tracked \in [Chats -> Entities]
  /\ inbox = [id \in MsgIds |-> NoMsg]
  /\ messages = {}
  /\ msg = NoDispatch
  /\ nDeliv = 0
  /\ InitNoNotifications
  /\ send = IdleSend
  /\ InitNoWebhooks

NextMessages ==
  \/ \E c \in Clients, id \in MsgIds, ch \in Chats, k \in MediaKinds : LibMessage(c, id, ch, k)
  \/ MessageGetClient
  \/ MessageGetClient2
  \/ \E failed \in BOOLEAN, dl \in BOOLEAN, tc \in BOOLEAN : HandleMessage(failed, dl, tc)

SpecMessages == InitMessages /\ [][NextMessages]_vars

(***************************************************************************)
(* Notifications: callers submit normal and forced notifications for two   *)
(* devices while the clock runs.                                           *)
(***************************************************************************)
InitNotify ==
  /\ InitManager
  /\ nsWired = TRUE
  /\ InitNoMessages
  /\ InitNoWebhooks
  /\ boot = "serving"
  /\ InitRows([d \in Devices |-> FreshRow])
  /\ sessions = {}
  /\ now = 0
  /\ notifLog = {}
  /\ ncall = NoCall
  /\ webhookURL \in BOOLEAN
  /\ nSends = 0

NextNotify ==
  \/ Tick
  \/ \E d \in NotifDevices, type \in NotifTypes, level \in NotificationLevels,
        failed \in BOOLEAN : SendDeviceNotificationGate(d, type, level, failed)
  \/ SendDeviceNotificationDeliver
  \/ \E d \in NotifDevices, type \in NotifTypes, level \in NotificationLevels :
        SendDeviceNotificationForced(d, type, level)

SpecNotify == InitNotify /\ [][NextNotify]_vars

(***************************************************************************)
(* Requests for any device id: device 1 may have no row, or a row in any   *)
(* status, with or without an identifier; the Notification Service may be  *)
(* left unwired.  Messages are sent and reconnections are requested.       *)
(***************************************************************************)
InitApi ==
  /\ InitManager
  /\ InitNoMessages
  /\ InitNoNotifications
  /\ InitNoWebhooks
  /\ nsWired \in BOOLEAN
  /\ boot = "serving"
  /\ \E row \in {NoRow} \cup {DeviceRow(st, j, r) : st \in DeviceStatus, j \in {NoJID, 1},
                                                   r \in BOOLEAN} :
       InitRows([d \in Devices |-> IF d = 1 THEN row ELSE FreshRow])
  /\ sessions \in SUBSET {1}

NextApi ==
  \/ \E d \in {1} : SendTextMessage(d)
  \/ SendTextMessage2
  \/ \E t \in ConnTasks, d \in {1} : ReconnectDevice(t, d)
  \/ \E t \in ConnTasks : ConnectClientSafelyCheck(t)
  \/ \E t \in ConnTasks : ConnectClientSafelyGet(t)
  \/ \E t \in ConnTasks : ConnectClientSafelyGet2(t)
  \/ \E t \in ConnTasks : ConnectClientSafelyGetFailed(t)
  \/ \E t \in ConnTasks : ConnectClientSafelyResult(t)
  \/ \E t \in ConnTasks : ConnectClientSafelyTimeout(t)
  \/ \E t \in ConnTasks : ConnectDial(t)
  \/ \E t \in ConnTasks : ConnectDialed(t)
  \/ \E t \in ConnTasks : ConnectRead(t)
  \/ \E t \in ConnTasks : ConnectWrite(t)
  \/ \E t \in ConnTasks : ConnectFlag(t)

SpecApi == InitApi /\ [][NextApi]_vars

(***************************************************************************)
(* Boot over any stored rows: devices 1 and 2 are approved, with or        *)
(* without an identifier and flag; device 3 is in any status; any of the   *)
(* stored sessions may be gone.                                            *)
(***************************************************************************)
InitStartup ==
  /\ InitIdle
  /\ boot = "clean"
  /\ \E rows \in [Devices -> [status : DeviceStatus, jid : {NoJID} \cup JIDs, reauth : BOOLEAN]] :
       /\ \A d \in Devices : rows[d].jid \in {NoJID, d}
       /\ \A d \in {1, 2} : rows[d].status = DeviceStatusApproved
       /\ InitRows(rows)
  /\ sessions \in SUBSET JIDs

NextStartup ==
  \/ CleanCorruptedSessions
  \/ ConnectAllApproved
  \/ \E t \in Tasks : BulkAcquire(t)

SpecStartup == InitStartup /\ [][NextStartup]_vars

(***************************************************************************)
(* Webhooks: one configuration exists, enabled or not; the delivery log is *)
(* empty or holds one pending row that carries the configuration's id,     *)
(* the reference the table is keyed by.  Events are dispatched, the        *)
(* configuration is switched, ProcessPendingWebhooks is run.               *)
(***************************************************************************)
InitWebhooks ==
  /\ InitManager
  /\ nsWired = TRUE
  /\ InitNoMessages
  /\ InitNoNotifications
  /\ boot = "serving"
  /\ InitRows([d \in Devices |-> FreshRow])
  /\ sessions = {}
  /\ deliveries \in {<<>>, <<Delivery(FirstConfig, "pending", "scheduled", 1, FirstConfig, 1)>>}
  /\ hookEnabled \in BOOLEAN
  /\ retryq = 0
  /\ nHooks = 0
  /\ outbox = EmptyOutbox
  /\ ncalls = [k \in Notifiers |-> NoCall]
  /\ held = [l \in Locks |-> NoTask]
  /\ running = [g \in Goroutines |-> Idle]

NextWebhooks ==
  \/ \E enabled \in BOOLEAN : ConfigureWebhook(enabled)
  \/ \E outcome \in PostOutcomes : SendToWebhook(outcome)
  \/ ScheduleWebhookRetry
  \/ \E id \in 1 .. (2 * MaxHookEvents + 1), outcome \in PostOutcomes :
        ProcessPendingWebhooks(id, outcome)

SpecWebhooks == InitWebhooks /\ [][NextWebhooks]_vars

(***************************************************************************)
(* A paired device in service is disabled by the administrator while       *)
(* reconnect requests and the health check run.                            *)
(***************************************************************************)
InitDisable ==
  /\ InitIdle
  /\ boot = "serving"
  /\ \E st \in {DeviceStatusConnected, DeviceStatusApproved} :
       InitRows([d \in Devices |-> IF d = 1 THEN DeviceRow(st, 1, FALSE) ELSE FreshRow])
  /\ sessions = {1}

NextDisable ==
  \/ \E t \in ConnTasks, d \in {1} : ReconnectDevice(t, d)
  \/ \E t \in ConnTasks : ConnectClientSafelyCheck(t)
  \/ \E t \in ConnTasks : ConnectClientSafelyGet(t)
  \/ \E t \in ConnTasks : ConnectClientSafelyGetFailed(t)
  \/ \E t \in ConnTasks : ConnectClientSafelyResult(t)
  \/ \E t \in ConnTasks : ConnectClientSafelyTimeout(t)
  \/ \E t \in ConnTasks : ConnectDial(t)
  \/ \E t \in ConnTasks : ConnectDialed(t)
  \/ \E t \in ConnTasks : ConnectRead(t)
  \/ \E t \in ConnTasks : ConnectWrite(t)
  \/ \E t \in ConnTasks : ConnectFlag(t)
  \/ \E d \in {1} : APIUpdateDeviceStatus(d, DeviceStatusDisabled)
  \/ \E d \in {1} : DisconnectClient(d)
  \/ HealthCheckStart
  \/ HealthCheckScan
  \/ HealthCheckRead
  \/ HealthCheckWrite

SpecDisable == InitDisable /\ [][NextDisable]_vars

(* the same, with ProcessPendingWebhooks run again and again: every row    *)
(* that stays due is picked up by a later pass                             *)
DeliveryIds == 1 .. (2 * MaxHookEvents + 1)

FairPasses ==
  \A id \in DeliveryIds : WF_vars(\E outcome \in PostOutcomes : ProcessPendingWebhooks(id, outcome))

SpecWebhooksFair == SpecWebhooks /\ FairPasses

(***************************************************************************)
(* The retry queue: deliveries are logged one by one in any status and in  *)
(* a burst of scheduled retries, time passes, and the due rows are         *)
(* queried.                                                                *)
(***************************************************************************)
InitPending ==
  /\ InitIdle
  /\ boot = "serving"
  /\ InitRows([d \in Devices |-> FreshRow])
  /\ sessions = {}

NextPending ==
  \/ \E status \in DeliveryStatus, delayed \in BOOLEAN : InsertDelivery(status, delayed)
  \/ InsertRetryBurst
  \/ ClockTick
  \/ GetPendingWebhookDeliveries

SpecPending == InitPending /\ [][NextPending]_vars

(***************************************************************************)
(* Notifications submitted by goroutines running side by side, for any     *)
(* device, type and level, while the clock advances.                       *)
(***************************************************************************)
NextNotifyRace ==
  \/ Tick
  \/ \E k \in Notifiers, d \in NotifDevices, type \in NotifTypes, level \in NotificationLevels :
        NotifierGate(k, d, type, level)
  \/ \E k \in Notifiers : NotifierDeliver(k)

SpecNotifyRace == InitNotify /\ [][NextNotifyRace]_vars

(***************************************************************************)
(* Goroutines, each running one of the operations, on any of the Clients.  *)
(* A goroutine that can go on does; a goroutine waiting in Lock gets the   *)
(* mutex if it is free again and again (sync.Mutex hands a starving        *)
(* waiter the lock).                                                       *)
(***************************************************************************)
InitLocks ==
  /\ InitIdle
  /\ boot = "serving"
  /\ InitRows([d \in Devices |-> FreshRow])
  /\ sessions = {}

NextLocks ==
  \/ \E g \in Goroutines, prog \in Programs : Go(g, prog)
  \/ \E g \in Goroutines : Acquire(g)
  \/ \E g \in Goroutines : Release(g)

FairLocks == \A g \in Goroutines : SF_vars(Acquire(g)) /\ WF_vars(Release(g))

SpecLocks == InitLocks /\ [][NextLocks]_vars /\ FairLocks

(***************************************************************************)
(* C1: each device has at most one live protocol session: no two distinct  *)
(* Clients created for the same device are dialling or connected at the    *)
(* same time.                                                              *)
(***************************************************************************)
OneLiveSessionPerDevice ==
  \A c1, c2 \in Clients :
    (c1 # c2 /\ Live(c1) /\ Live(c2)) => clients[c1].dev # clients[c2].dev

(***************************************************************************)
(* C2: GetClient is idempotent: the calls made for a device since its      *)
(* registry entry was last deleted all returned the same Client, and at    *)
(* most one Client was created for them.                                   *)
(***************************************************************************)
GetClientIdempotent ==
  \A d \in Devices : Cardinality(gcReturned[d]) <= 1 /\ Cardinality(gcCreated[d]) <= 1

(* two calls for one device, nothing deleted in between, one Client        *)
GetClientReturnedTwice ==
  \E d \in Devices :
    gcCalls[d] >= 2 /\ Cardinality(gcReturned[d]) = 1 /\ gcReturned[d] = {registry[d]}

(***************************************************************************)
(* C3: while ConnectAllApproved's tasks run, at most 2 Connect() calls are *)
(* in flight.                                                              *)
(***************************************************************************)
AtMostTwoAttemptsInFlight ==
  Cardinality({t \in Tasks : conn[t].pc \in ConnectRunning}) <= SemaphoreSize

(***************************************************************************)
(* C4, as amended: a channel returned by GetQRChannel carries at most one  *)
(* code, and that code is the first one handled while the request was      *)
(* waiting to receive on the channel; a request receives only the code its *)
(* channel carried.                                                        *)
(***************************************************************************)
QRChannelCarriesFirstReceivable ==
  /\ \A ch \in Channels :
       /\ Len(chans[ch].carried) <= 1
       /\ chans[ch].carried # <<>> => chans[ch].carried[1] = chans[ch].firstw
  /\ \A r \in QRRequests :
       qr[r].got # NoCode => chans[qr[r].ch].carried = <<qr[r].got>>

(* a channel has carried a code and a later code has been dropped          *)
QRLaterCodeDropped ==
  \E ch \in Channels :
    /\ Len(chans[ch].carried) = 1
    /\ nCodes > chans[ch].carried[1]
    /\ ev[chans[ch].cl] = NoEvent

(* C4 as stated: the code a channel carries is the first one handled after *)
(* the channel was opened                                                  *)
QRChannelCarriesFirstSent ==
  \A ch \in Channels :
    /\ Len(chans[ch].carried) <= 1
    /\ chans[ch].carried # <<>> => chans[ch].carried[1] = chans[ch].first

(***************************************************************************)
(* C5: handleQR never blocks: it can always finish, and when no channel is *)
(* pending or no request is waiting on it, it finishes without handing the *)
(* code to anybody.                                                        *)
(***************************************************************************)
NoConsumer(c) ==
  clients[c].qrChannel = NoChannel \/ ~ReceiverWaiting(clients[c].qrChannel)

QRHandlerNeverBlocks ==
  \A c \in Clients :
    AtClientHandler(c, "QR") =>
      /\ ENABLED ClientHandleQR(c)
      /\ NoConsumer(c) =>
           ENABLED (/\ ClientHandleQR(c)
                    /\ ev'[c] = NoEvent
                    /\ qr' = qr
                    /\ \A ch \in Channels : chans'[ch].carried = chans[ch].carried)

(* a QR event has been handled and its code went to nobody                 *)
QRCodeDropped ==
  /\ nCodes > 0
  /\ \A c \in Clients : ev[c] = NoEvent
  /\ \A ch \in Channels : chans[ch].carried = <<>>
  /\ \E c \in Clients : clients[c].qrChannel # NoChannel

(***************************************************************************)
(* C6: when the goroutine of Client.handleLoggedOut ends (HandleEvent has  *)
(* run before it), the Device has status approved and requires_reauth.     *)
(***************************************************************************)
LoggedOutLeavesApprovedReauth ==
  \A g \in gor :
    g.pc = "done" => g.row.status = DeviceStatusApproved /\ g.row.reauth

(***************************************************************************)
(* C7, as amended: when Connect() finds an identifier in its session, the  *)
(* row it stores has status connected, that identifier as jid and          *)
(* requires_reauth false; when the session has no identifier, Connect()    *)
(* succeeds without touching the Device.                                   *)
(***************************************************************************)
ConnectStoresConnectedRow ==
  [][\A k \in Callers :
       /\ (conn[k].pc = "write" /\ conn'[k].pc = "flag") =>
            /\ conn[k].sid # NoJID
            /\ devices'[clients[conn[k].cl].dev] =
                 [status |-> DeviceStatusConnected, jid |-> conn[k].sid, reauth |-> FALSE]
       /\ (conn[k].pc = "read" /\ conn'[k].pc = "flag") =>
            /\ clients[conn[k].cl].storeID = NoJID
            /\ devices' = devices]_vars

(* Connect() has returned success after storing the row                    *)
ConnectStoredRow ==
  \E k \in Callers :
    /\ conn[k].pc = "ok"
    /\ task[k].cl # NoClient
    /\ clients[task[k].cl].storeID # NoJID
    /\ devices[task[k].dev] =
         [status |-> DeviceStatusConnected, jid |-> clients[task[k].cl].storeID,
          reauth |-> FALSE]

(* C7 as stated: whenever Connect() returns success, the Device has status *)
(* connected, the session's non-empty identifier and requires_reauth false *)
ConnectSuccessLeavesConnected ==
  [][\A k \in Callers :
       (conn[k].pc = "flag" /\ conn'[k].pc # "flag") =>
         /\ clients[conn[k].cl].storeID # NoJID
         /\ devices'[clients[conn[k].cl].dev] =
              [status |-> DeviceStatusConnected, jid |-> clients[conn[k].cl].storeID,
               reauth |-> FALSE]]_vars

(***************************************************************************)
(* C8: a Device carries a jid only if its status is, or has earlier been,  *)
(* connected.                                                              *)
(***************************************************************************)
JidOnlyAfterConnected ==
  \A d \in Devices : devices[d].jid # NoJID => everConn[d]

(* a device paired through a QR code of this run has its jid stored        *)
JidStoredAfterPairing ==
  \E ch \in Channels :
    /\ chans[ch].carried # <<>>
    /\ clients[chans[ch].cl].storeID # NoJID
    /\ devices[clients[chans[ch].cl].dev].jid = clients[chans[ch].cl].storeID

(***************************************************************************)
(* C9: no task of the startup reconnection starts dialling for a device    *)
(* whose status is disabled.                                               *)
(***************************************************************************)
DisabledNeverReconnected ==
  [][\A t \in Tasks :
       (conn[t].pc = "dial" /\ conn'[t].pc = "dialing") =>
         devices[clients[conn[t].cl].dev].status # DeviceStatusDisabled]_vars

(***************************************************************************)
(* C10: no alert is raised for a device whose status is disabled.          *)
(***************************************************************************)
DisabledNeverNotified == alerts.status # DeviceStatusDisabled

(***************************************************************************)
(* C11: the write of the Disconnected handler changes last_seen only: the  *)
(* status, jid and requires_reauth it stores are those the row held        *)
(* immediately before the write, whatever other writers did since the      *)
(* handler read the row.                                                   *)
(***************************************************************************)
DisconnectedWritesLastSeenOnly ==
  [][\A c \in Clients :
       (ev[c].kind = "Disconnected" /\ ev[c].pc = "eh_write" /\ ev'[c] # ev[c])
         => devices'[clients[c].dev] = devices[clients[c].dev]]_vars

(***************************************************************************)
(* C12: every row of whatsapp_messages has is_group = TRUE.                *)
(***************************************************************************)
EveryStoredMessageIsGroup == \A m \in messages : m.group

(* a group message has been saved, and direct messages have been handled   *)
GroupMessageStored ==
  /\ messages # {}
  /\ msg.pc = "done" /\ msg.out = "forwarded" /\ ~IsGroup(inbox[msg.id].chat)

(***************************************************************************)
(* C13: when a message of a direct chat that is not tracked has been       *)
(* dispatched (GetClient and the tracking lookup succeeded), no row of     *)
(* whatsapp_messages holds it and the upstream forward has been invoked    *)
(* exactly once.                                                           *)
(***************************************************************************)
DirectUntrackedForwardedOnce ==
  (/\ msg.pc = "done"
   /\ ~IsGroup(inbox[msg.id].chat)
   /\ ~tracked[inbox[msg.id].chat].isTracked
   /\ msg.errs = 0 /\ msg.cerrs = 0)
    => /\ ~Stored(clients[msg.cl].dev, msg.id)
       /\ msg.fwd + msg.fwdAudio = 1

(* what one run of handleMessage leaves alone when it stops early          *)
NothingDone ==
  /\ messages' = messages
  /\ msg'.saves = msg.saves
  /\ msg'.dls = msg.dls
  /\ msg'.tcs = msg.tcs
  /\ msg'.fwd = msg.fwd
  /\ msg'.fwdAudio = msg.fwdAudio

(***************************************************************************)
(* C14: a run of handleMessage for a group message whose tracking lookup   *)
(* fails or whose chat is not tracked writes no row, downloads and         *)
(* transcodes nothing and forwards nothing.                                *)
(***************************************************************************)
UntrackedGroupStopsEntirely ==
  [][(/\ msg.pc = "handle" /\ msg'.pc # "handle"
      /\ IsGroup(inbox[msg.id].chat)
      /\ (msg'.ent.err \/ ~msg'.ent.isTracked))
       => NothingDone]_vars

(* a group message was dispatched; one run found the lookup failing, the   *)
(* other found the chat not tracked; both stopped                          *)
UntrackedGroupStopped ==
  /\ msg.pc = "done" /\ msg.n = HandlerRegistrations
  /\ IsGroup(inbox[msg.id].chat)
  /\ msg.errs = 1 /\ msg.out = "stopped"
  /\ msg.fwd = 0 /\ msg.fwdAudio = 0 /\ msg.saves = 0

(***************************************************************************)
(* C15: a SaveMessage whose (device_id, message_id) is already stored      *)
(* leaves the table as it is and returns no error.                         *)
(***************************************************************************)
SaveOfStoredKeyIsSilent ==
  [][(/\ msg.pc = "handle" /\ msg'.saves = msg.saves + 1
      /\ Stored(clients[msg.cl].dev, msg.id))
       => (messages' = messages /\ msg'.res = "nil")]_vars

(***************************************************************************)
(* C16 as stated: a run of handleMessage for an audio message that is not  *)
(* in the chat's non-empty allowed list transcodes it, forwards it with    *)
(* the audio call and writes no row.                                       *)
(***************************************************************************)
AudioOutsideListProcessed ==
  [][(/\ msg.pc = "handle" /\ msg'.pc # "handle"
      /\ inbox[msg.id].kind = "audio"
      /\ ~msg'.ent.err
      /\ msg'.ent.allowed # {} /\ "audio" \notin msg'.ent.allowed)
       => /\ msg'.tcs = msg.tcs + 1
          /\ msg'.fwdAudio = msg.fwdAudio + 1
          /\ messages' = messages]_vars

(***************************************************************************)
(* C16, as amended: the same, for a chat that tracks media and a run that  *)
(* the tracking check lets through.                                        *)
(***************************************************************************)
AudioOutsideListProcessedWhenMediaTracked ==
  [][(/\ msg.pc = "handle" /\ msg'.pc # "handle"
      /\ inbox[msg.id].kind = "audio"
      /\ ~msg'.ent.err
      /\ msg'.ent.allowed # {} /\ "audio" \notin msg'.ent.allowed
      /\ msg'.ent.trackMedia
      /\ ~(IsGroup(inbox[msg.id].chat) /\ ~msg'.ent.isTracked))
       => /\ msg'.tcs = msg.tcs + 1
          /\ msg'.fwdAudio = msg.fwdAudio + 1
          /\ msg'.fwd = msg.fwd
          /\ messages' = messages]_vars

(* an audio message outside the allowed list was transcoded and forwarded  *)
AudioOutsideListForwarded ==
  /\ msg.pc = "done"
  /\ inbox[msg.id].kind = "audio"
  /\ msg.ent.trackMedia /\ msg.ent.allowed = {"image"}
  /\ msg.out = "forwarded" /\ msg.tcs > 0 /\ msg.fwdAudio > 0
  /\ ~Stored(clients[msg.cl].dev, msg.id)

(***************************************************************************)
(* C17: a run of handleMessage for a medium other than audio that is not   *)
(* in the non-empty allowed list of a chat that tracks media writes no     *)
(* row, downloads nothing and forwards nothing.                            *)
(***************************************************************************)
MediaOutsideListDropped ==
  [][(/\ msg.pc = "handle" /\ msg'.pc # "handle"
      /\ inbox[msg.id].kind \notin {"text", "audio"}
      /\ ~msg'.ent.err
      /\ msg'.ent.trackMedia
      /\ msg'.ent.allowed # {} /\ inbox[msg.id].kind \notin msg'.ent.allowed)
       => NothingDone]_vars

(* a video outside the allowed list of a tracked chat was dropped          *)
MediaOutsideListWasDropped ==
  /\ msg.pc = "done" /\ msg.n = HandlerRegistrations
  /\ inbox[msg.id].kind = "video"
  /\ msg.ent.isTracked /\ msg.ent.trackMedia /\ msg.ent.allowed = {"image"}
  /\ msg.out = "dropped"
  /\ msg.fwd = 0 /\ msg.saves = 0 /\ msg.dls = 0

(* the rows of a (device, type) pair that no other row of the pair follows *)
MostRecentRows(d, type) ==
  {r \in notifLog : /\ r.dev = d /\ r.type = type
                    /\ \A q \in notifLog : (q.dev = d /\ q.type = type) => q.at <= r.at}

(* a step in which a normal send asks the gate                             *)
GateAsked == nSends' = nSends + 1 /\ ~ncall'.forced

(***************************************************************************)
(* C18 as stated: the gate allows a normal send if and only if the pair    *)
(* has no log row or the time since its most recent row is at least the    *)
(* cooldown of the type and level.                                         *)
(***************************************************************************)
GateAllowsIffNoRowOrCooldownOver ==
  [][GateAsked =>
       (ncall'.allowed <=>
          \/ MostRecentRows(ncall'.dev, ncall'.type) = {}
          \/ \E r \in MostRecentRows(ncall'.dev, ncall'.type) :
               now - r.at >= Cooldown(ncall'.type, ncall'.level))]_vars

(***************************************************************************)
(* C18, as amended: the gate allows a normal send if and only if the       *)
(* lookup of the most recent row fails, or the pair has no log row, or the *)
(* time since its most recent row is at least the cooldown.                *)
(***************************************************************************)
GateAllowsIffLookupFailsOrNoRowOrCooldownOver ==
  [][GateAsked =>
       (ncall'.allowed <=>
          \/ ncall'.failed
          \/ MostRecentRows(ncall'.dev, ncall'.type) = {}
          \/ \E r \in MostRecentRows(ncall'.dev, ncall'.type) :
               now - r.at >= Cooldown(ncall'.type, ncall'.level))]_vars

(* a normal send was allowed in the minute its cooldown ended              *)
AllowedWhenCooldownOver ==
  /\ ncall.pc = "gated" /\ ~ncall.forced /\ ~ncall.failed /\ ncall.allowed
  /\ \E r \in MostRecentRows(ncall.dev, ncall.type) :
       now - r.at = Cooldown(ncall.type, ncall.level)

(***************************************************************************)
(* C19: a normal send that the gate denies returns nil, writes no log row  *)
(* and reaches no channel; a log row is only written by a forced send or   *)
(* after the gate has allowed the send.                                    *)
(***************************************************************************)
DeniedSendHasNoEffects ==
  [][/\ (GateAsked /\ ~ncall'.allowed)
          => /\ notifLog' = notifLog
             /\ ncall'.effects = {}
             /\ ncall'.pc = "done" /\ ncall'.res = "nil"
     /\ (notifLog' # notifLog)
          => \/ ncall'.forced
             \/ ncall.pc = "gated" /\ ncall.allowed]_vars

(* a normal send was denied inside the cooldown of an earlier row          *)
SendDenied ==
  /\ ncall.pc = "done" /\ ~ncall.forced /\ ~ncall.allowed
  /\ ncall.res = "nil" /\ ncall.effects = {}
  /\ \E r \in MostRecentRows(ncall.dev, ncall.type) :
       now - r.at < Cooldown(ncall.type, ncall.level)

ReauthLeavesConnectedAlone ==
  [][\A g \in gor :
       (/\ g.kind = "loggedout" /\ g.pc = "reauth" /\ g \notin gor'
        /\ devices[clients[g.cl].dev].status = DeviceStatusConnected)
         => devices' = devices]_vars

(* handleLoggedOut's goroutine has called SetDeviceRequiresReauth on a     *)
(* connected device, which is still connected and not flagged              *)
ReauthSkippedConnected ==
  \E g \in gor :
    /\ g.kind = "loggedout" /\ g.pc = "status"
    /\ devices[clients[g.cl].dev].status = DeviceStatusConnected
    /\ ~devices[clients[g.cl].dev].reauth

(***************************************************************************)
(* C30: no step reads or changes the registry while another caller holds   *)
(* the manager lock.  (GetClient keeps the lock over several steps; every  *)
(* other locked section is one step, which needs the lock free.)           *)
(***************************************************************************)
RegistryOnlyUnderLock ==
  [][(\/ registry' # registry
      \/ hc.pc \in {"idle", "scan"} /\ hc' # hc)
       => (mutex = NoTask \/ mutex' = NoTask)]_vars

(***************************************************************************)
(* C24: a GetClient call that finds no cached Client fails with NotFound   *)
(* when the device has no row and with NotEligible when the row's status   *)
(* is neither approved nor connected; the call creates no Client and       *)
(* leaves the registry as it was; a step that creates a Client creates it  *)
(* for a device whose row is approved or connected.                        *)
(***************************************************************************)
GetClientFailsWithoutClient ==
  [][/\ \A d \in Devices :
          (send'.n # send.n /\ send'.dev = d /\ registry[d] = NoClient /\ ~Eligible(devices[d]))
            => /\ send'.pc = "done"
               /\ send'.res = (IF devices[d] = NoRow THEN "NotFound" ELSE "NotEligible")
               /\ clients' = clients
               /\ registry' = registry
     /\ \A t \in ConnTasks :
          (task[t].pc = "cs_get" /\ task'[t] # task[t] /\ ~Eligible(devices[task[t].dev]))
            => /\ task'[t].res = "err_get"
               /\ clients' = clients
               /\ registry' = registry
     /\ \A c \in Clients :
          (clients[c].dev = 0 /\ clients'[c].dev # 0)
            => /\ devices[clients'[c].dev].status \in {DeviceStatusApproved, DeviceStatusConnected}
               /\ registry'[clients'[c].dev] = c]_vars

(* both failures have been returned and no Client exists                   *)
GetClientRefusedAbsentRow ==
  /\ send.pc = "done"
  /\ send.res = "NotFound"
  /\ devices[send.dev] = NoRow
  /\ \A c \in Clients : clients[c].dev = 0

GetClientRefusedPending ==
  /\ send.pc = "done"
  /\ send.res = "NotEligible"
  /\ devices[send.dev].status \in {DeviceStatusPending, DeviceStatusDisabled}
  /\ \E t \in ConnTasks : task[t].pc = "done" /\ task[t].res = "err_get"
  /\ \A c \in Clients : clients[c].dev = 0

FailedConnectReturnsError ==
  [][/\ \A t \in ConnTasks :
          (task[t].pc # "done" /\ task'[t].pc = "done")
            => /\ task[t].pc = "cs_notify" => task'[t].res = "err_get"
               /\ (task[t].pc = "cs_wait" /\ conn[t].pc \in ConnectErrors)
                    => task'[t].res \in {"err_conn", "err_critical"}
               /\ (task[t].pc = "cs_wait" /\ conn[t].pc \in ConnectRunning)
                    => task'[t].res = "timeout"
               /\ task'[t].res = "ok" => (task[t].pc = "cs_start" \/ conn[t].pc = "ok")
     /\ ~nsWired => alerts' = alerts]_vars

(* without a Notification Service: one call timed out, another got an      *)
(* error from Connect()                                                    *)
FailedUnnotified ==
  /\ ~nsWired
  /\ alerts = NoAlert
  /\ \E t \in ConnTasks : task[t].pc = "done" /\ task[t].res = "timeout"
  /\ \E t \in ConnTasks : task[t].pc = "done" /\ task[t].res \in {"err_conn", "err_critical"}

(***************************************************************************)
(* C27: ConnectAllApproved starts a task for an approved device exactly    *)
(* when its row carries an identifier and is not flagged requires_reauth;  *)
(* every other approved device gets no task and its row is left as it is.  *)
(***************************************************************************)
ApprovedConnectedOnlyWhenPaired ==
  [][(boot = "connect" /\ boot' = "serving")
       => \A d \in Devices :
            devices[d].status = DeviceStatusApproved
              => /\ (task'[d].pc = "queued" /\ task'[d].dev = d)
                      <=> (devices[d].jid # NoJID /\ ~devices[d].reauth)
                 /\ (devices[d].jid = NoJID \/ devices[d].reauth) => task'[d] = IdleTask
                 /\ devices'[d] = devices[d]]_vars

(* after the bulk start: a paired approved device has its task, a flagged  *)
(* one whose session is still stored and an unpaired one have none         *)
ApprovedSplit ==
  /\ boot = "serving"
  /\ task[1].pc = "cs_start" /\ task[1].origin = "bulk_approved"
  /\ devices[2] = DeviceRow(DeviceStatusApproved, 2, TRUE) /\ 2 \in sessions
  /\ task[2] = IdleTask
  /\ devices[3] = DeviceRow(DeviceStatusApproved, NoJID, FALSE)
  /\ task[3] = IdleTask

DisabledPendingCancelled ==
  [][\A id \in DOMAIN deliveries :
       (/\ deliveries'[id].seen # deliveries[id].seen
        /\ deliveries[id].status = "pending"
        /\ deliveries[id].cfg = FirstConfig
        /\ ~hookEnabled)
         => /\ deliveries'[id].status = "cancelled"
            /\ deliveries'[id].posts = deliveries[id].posts]_vars

(***************************************************************************)
(* C39: a Client that reports connected holds a paired session: its        *)
(* session store carries an identifier.                                    *)
(***************************************************************************)
ConnectedImpliesPaired ==
  \A c \in Clients : IsConnected(c) => clients[c].storeID # NoJID

(***************************************************************************)
(* C31: a QR request that found its device approved, got a Client and saw  *)
(* it not connected ends with the QR code it received or with the timeout  *)
(* answer.                                                                 *)
(***************************************************************************)
QRRequestEndsWithCodeOrTimeout ==
  \A r \in QRRequests :
    (qr[r].pc = "done" /\ qr[r].res \notin {"err_status", "err_get", "err_connected"})
      => qr[r].res \in {"ok", "timeout"}

(***************************************************************************)
(* C32: a run of handleMessage for a message of a direct chat whose        *)
(* tracking lookup fails forwards the message, whatever its kind.          *)
(***************************************************************************)
DirectForwardedAfterFailedLookup ==
  [][(/\ msg.pc = "handle"
      /\ msg'.errs = msg.errs + 1
      /\ ~IsGroup(inbox[msg.id].chat))
       => msg'.fwd + msg'.fwdAudio = msg.fwd + msg.fwdAudio + 1]_vars

(* C34: each event of a session is handed to EventHandler.HandleEvent     *)
(* exactly once: a dispatch never starts a second run of the handler for   *)
(* the event it is carrying.                                               *)
EventHandledOnce ==
  \A c \in Clients : ev[c].kind # "none" => ev[c].n = 1

(* C38: once ConnectClientSafely has returned its timeout error, the       *)
(* Connect() call it left behind never writes status connected to the      *)
(* device's row.                                                           *)
AbandonedConnectNeverWrites ==
  [][\A t \in Tasks :
       (/\ task[t].pc = "done" /\ task[t].res = "timeout"
        /\ conn[t].pc = "write" /\ conn'[t].pc # "write"
        /\ devices[task[t].dev].status # DeviceStatusConnected)
         => devices'[task[t].dev].status # DeviceStatusConnected]_vars

(* C35: a disabled device stays disabled until a status update changes     *)
(* it: a step that is not a status update leaves the status of a disabled  *)
(* row alone.                                                              *)
DisabledUntilStatusUpdate ==
  [][\A d \in Devices :
       (devices[d].status = DeviceStatusDisabled /\ nUpdates' = nUpdates)
         => devices'[d].status = DeviceStatusDisabled]_vars

(* C36: while ProcessPendingWebhooks keeps being run, every delivery row    *)
(* in status pending or retrying eventually reaches a terminal status:     *)
(* success, failed or cancelled.                                           *)
PendingEventuallyTerminal ==
  \A id \in DeliveryIds :
    (id \in DOMAIN deliveries /\ Pending(deliveries[id]))
      ~> (id \in DOMAIN deliveries /\ deliveries[id].status \in {"success", "failed", "cancelled"})

(***************************************************************************)
(* C33: GetPendingWebhookDeliveries returns only rows in status pending or *)
(* retrying that are due, at most PendingLimit of them.  As stated, the    *)
(* newest-created row comes first.                                         *)
(***************************************************************************)
ReturnedAreDue ==
  /\ Len(outbox.res) <= PendingLimit
  /\ \A k \in 1 .. Len(outbox.res) :
       /\ outbox.res[k] \in DOMAIN outbox.rows
       /\ DueAt(outbox.rows[outbox.res[k]], outbox.at)

PendingNewestFirst ==
  /\ ReturnedAreDue
  /\ \A k \in 1 .. (Len(outbox.res) - 1) :
       outbox.rows[outbox.res[k]].created >= outbox.rows[outbox.res[k + 1]].created

(* C33, as the query does it: the oldest-created row comes first, and no   *)
(* due row of the table older than a returned one is left out.             *)
PendingOldestFirst ==
  LET returned == {outbox.res[k] : k \in 1 .. Len(outbox.res)}
      left == {id \in DOMAIN outbox.rows \ returned : DueAt(outbox.rows[id], outbox.at)} IN
  /\ ReturnedAreDue
  /\ \A k \in 1 .. (Len(outbox.res) - 1) :
       outbox.rows[outbox.res[k]].created <= outbox.rows[outbox.res[k + 1]].created
  /\ (outbox.at # 0 /\ left # {}) =>
       /\ Len(outbox.res) = PendingLimit
       /\ \A id \in left :
            outbox.rows[id].created >= outbox.rows[outbox.res[PendingLimit]].created

(* more than PendingLimit rows were due; the query returned PendingLimit   *)
(* of them, leaving out rows that were not due, rows in a terminal status  *)
(* and the newest due rows                                                 *)
PendingQueryCapped ==
  /\ Len(outbox.res) = PendingLimit
  /\ Cardinality({id \in DOMAIN outbox.rows : DueAt(outbox.rows[id], outbox.at)}) > PendingLimit
  /\ \E id \in DOMAIN outbox.rows : outbox.rows[id].status = "failed"
  /\ \E id \in DOMAIN outbox.rows :
       Pending(outbox.rows[id]) /\ ~DueAt(outbox.rows[id], outbox.at)

(***************************************************************************)
(* C37: two non-forced notifications of one (device, type) pair that both  *)
(* pass the gate and are sent lie at least the cooldown apart, also when   *)
(* their calls run side by side: when a call that passed the gate sends,   *)
(* every earlier send of the pair is at least the cooldown old.            *)
(***************************************************************************)
SendsSeparatedByCooldown ==
  [][\A k \in Notifiers :
       (ncalls[k].pc = "gated" /\ ncalls'[k].pc = "done")
         => \A r \in LogRows(ncalls[k].dev, ncalls[k].type) :
              now - r.at >= Cooldown(ncalls[k].type, ncalls[k].level)]_vars

(***************************************************************************)
(* C40: no deadlock on the manager lock and the Client locks: whatever     *)
(* GetClient, ConnectClientSafely, GetDetailedStatus, DisconnectClient,    *)
(* event dispatches and QR requests run side by side, a goroutine that     *)
(* calls Lock on one of these locks eventually holds it.                   *)
(***************************************************************************)
EveryLockRequestGranted ==
  \A g \in Goroutines, l \in Locks : Requests(g, l) ~> (held[l] = g)

(* a status request holds the manager lock and waits for the lock of a     *)
(* Client that an event handler holds, while a third goroutine waits for   *)
(* the manager lock                                                        *)
LockChainWaiting ==
  \E g1, g2, g3 \in Goroutines, c \in LockClients :
    /\ g1 # g2 /\ g2 # g3 /\ g1 # g3
    /\ held[ManagerMutex] = g1 /\ Requests(g1, c)
    /\ held[c] = g2 /\ running[g2] = <<Unlock(c)>>
    /\ Requests(g3, ManagerMutex)
====
